---- MODULE Spec2Model ----
(***************************************************************************)
(* State-machine model of the voice core of Wire (src/src/VoiceConnection  *)
(* .js, first revision in the file, lines 1-1501).                         *)
(*                                                                         *)
(* Part I  (signalling): two endpoints that both run VoiceConnection and   *)
(*   hold one PeerState for each other.  Every `await` on an               *)
(*   RTCPeerConnection operation is a suspension point: the handler's      *)
(*   frame is parked in the connection's operations chain (FIFO) and an    *)
(*   action of its own resumes it when the operation completes.            *)
(* Part II (admission): one endpoint, its peer map, admission queue, pump  *)
(*   and timers.                                                           *)
(***************************************************************************)
EXTENDS Integers, Sequences, FiniteSets, Bags, TLC

\* ------------------------------------------------------------------ bounds
\* negotiationneeded events fired by one endpoint's RTCPeerConnection
MaxNeg == 2
\* ICE candidates gathered by one endpoint
MaxCand == 3
\* ICE 'failed' transitions of one endpoint
MaxIceFail == 1
\* negotiationneeded events per endpoint where candidates or the connection
\* state are followed as well
OneNeg == 1
\* Part II: remote peers followed individually
NPeers == 2
\* Part II: participants / user-joined / force-reconnect events received
MaxAdmEvents == 2
\* Part II: sessions of further peers, created by their inbound offers and
\* only counted
MaxAnon == 101
\* Part III: calls of playFile / playVideo
MaxPlays == 2
\* Part III: value up to which a player's framesSent is counted
MaxFrames == 2
\* Part IV: time followed after the participants list arrived, in 100 ms
MaxTime == 40

\* ------------------------------------------------------- program constants
\* const MAX = 40 in _pollForConnected
PollMax == 40
\* this._maxConnectedPeers
MaxConnectedPeers == 100
SAMPLE_RATE == 48000
CHANNELS == 1
BITS == 16
FRAME_DURATION == 10
VIDEO_WIDTH == 640
VIDEO_HEIGHT == 360
FRAME_SAMPLES == (SAMPLE_RATE * FRAME_DURATION) \div 1000
FRAME_BYTES == FRAME_SAMPLES * CHANNELS * (BITS \div 8)
\* frameSize in VideoPlayer: one YUV420p frame
VideoFrameSize == (VIDEO_WIDTH * VIDEO_HEIGHT * 3) \div 2

\* ------------------------------------------------------------- identifiers
Ends == {1, 2}

Other(e) == 3 - e

\* Peer IDs are strings; a string is modelled as its sequence of code units.
IdSet == {<<1>>, <<1, 1>>, <<2>>}

\* JavaScript's `a < b` on strings: lexicographic on code units, a proper
\* prefix being smaller.
RECURSIVE StrLess(_, _)
StrLess(a, b) ==
  IF b = <<>> THEN FALSE
  ELSE IF a = <<>> THEN TRUE
  ELSE IF Head(a) < Head(b) THEN TRUE
  ELSE IF Head(a) > Head(b) THEN FALSE
  ELSE StrLess(Tail(a), Tail(b))

VARIABLES
  botId,    \* [Ends -> IdSet]       this._botId of each endpoint
  ps,       \* [Ends -> PeerState]   this._peers.get(<the other endpoint>)
  chain,    \* [Ends -> Seq(frame)]  pending pc operations with the awaiting frame
  net,      \* [Ends -> Seq(msg)]    signalling messages on their way to the endpoint
  polls,    \* [Ends -> bag of Nat] pending _pollForConnected timers, by `attempts`
  applied,  \* [Ends -> Seq(Nat)]    candidates passed to pc.addIceCandidate, in call order
  ctr,      \* [Ends -> record]      event counters and history flags
  vc,       \* Part II: the VoiceConnection instance and its pending timers
  pb,       \* Part III: the players of the instance and their pending timers
  tq,       \* Part IV: the admission of one participants list, with a clock
  tr,       \* Part V: the video track, its senders and its announcements
  ap,       \* Part VI: one AudioPlayer and its decoder processes
  cl,       \* Part VII: the Client's voice connections for one server
  sg        \* Part VIII: one peer's sessions and the connections built for them

sigVars == <<botId, ps, chain, net, polls, applied, ctr>>

admVars == <<vc>>

playVars == <<pb>>

extVars == <<tq, tr, ap, cl, sg>>

vars == <<sigVars, admVars, playVars, extVars>>

\* ------------------------------------------------------------- PeerState
\* No entry in this._peers.
NoPeer ==
  [exists |-> FALSE, polite |-> FALSE, makingOffer |-> FALSE,
   ignoreOffer |-> FALSE, pendingCandidates |-> <<>>, remoteDescSet |-> FALSE,
   peerJoinEmitted |-> FALSE, signalingState |-> "stable",
   connectionState |-> "new", localDescSet |-> FALSE,
   connectedCalls |-> 0, peerJoins |-> 0]

_isPolite(e) == StrLess(botId[e], botId[Other(e)])

\* new PeerState(...) followed by the first _buildPeerConnection.
NewPeerState(e) ==
  [NoPeer EXCEPT !.exists = TRUE, !.polite = _isPolite(e)]

\* The rebuild branch: a fresh RTCPeerConnection, negotiation flags reset,
\* polite and _peerJoinEmitted untouched.
RebuiltPeerState(p) ==
  [p EXCEPT !.makingOffer = FALSE, !.ignoreOffer = FALSE,
            !.pendingCandidates = <<>>, !.remoteDescSet = FALSE,
            !.signalingState = "stable", !.connectionState = "new",
            !.localDescSet = FALSE]

_getOrCreatePeerState(e) ==
  IF ~ps[e].exists THEN NewPeerState(e)
  ELSE IF ps[e].connectionState \in {"closed", "failed"} THEN RebuiltPeerState(ps[e])
  ELSE ps[e]

\* --------------------------------------------- RTCPeerConnection operations
\* Which operation is legal in which signalling state (JSEP state machine).
CanSetLocalOffer(s) == s \in {"stable", "have-local-offer"}

CanRollback(s) == s \in {"have-local-offer", "have-remote-offer"}

CanSetRemoteOffer(s) == s \in {"stable", "have-remote-offer"}

CanSetRemoteAnswer(s) == s = "have-local-offer"

CanAnswer(s) == s = "have-remote-offer"

Frame(op, by, rest) == [op |-> op, by |-> by, rest |-> rest]

HeadIs(e, op, by) ==
  /\ chain[e] # <<>>
  /\ Head(chain[e]).op = op
  /\ Head(chain[e]).by = by

Msg(type, cand) == [type |-> type, cand |-> cand]

HeadMsgIs(e, type) == net[e] # <<>> /\ Head(net[e]).type = type

\* =================================================== Part II: admission, state
PeerIds == 1..NPeers

\* this._tierConfig
TierConfig ==
  [small   |-> [maxPeers |-> 10, concurrent |-> 2, cooldown |-> 1000,
                staggerBase |-> 300, staggerPerPeer |-> 200],
   medium  |-> [maxPeers |-> 25, concurrent |-> 2, cooldown |-> 1500,
                staggerBase |-> 800, staggerPerPeer |-> 400],
   large   |-> [maxPeers |-> 50, concurrent |-> 1, cooldown |-> 2000,
                staggerBase |-> 1500, staggerPerPeer |-> 600],
   massive |-> [maxPeers |-> 100, concurrent |-> 1, cooldown |-> 3000,
                staggerBase |-> 2500, staggerPerPeer |-> 800]]

Tiers == {TierConfig.small, TierConfig.medium, TierConfig.large, TierConfig.massive}

\* A PeerState as the admission code sees it: its connection's
\* connectionState, makingOffer, and whether the negotiationneeded event of
\* a freshly built connection (after addTrack) is still to fire.
NoSession ==
  [exists |-> FALSE, connectionState |-> "new", makingOffer |-> FALSE,
   negPending |-> FALSE]

FreshSession ==
  [exists |-> TRUE, connectionState |-> "new", makingOffer |-> FALSE,
   negPending |-> TRUE]

\* A PeerState whose pc was never assigned (pc?.connectionState is undefined).
PcLessSession ==
  [exists |-> TRUE, connectionState |-> "none", makingOffer |-> FALSE,
   negPending |-> FALSE]

\* The instance after construction. keys is the insertion order of the _peers
\* map; anon counts the sessions of peers that are not in PeerIds;
\* queueTimers, slotTimers, pumpTimers and pumps are the callbacks the
\* instance has pending in the event loop, batchTimers the batch callbacks
\* of _processPeerBatches (each with its batch's size, its delay and the tier
\* it captured) and anonTimers the per-peer timers set for peers that are
\* not in PeerIds; events, dupQueued and offerAfterLeave record history;
\* refuse are the peers for which `new RTCPeerConnection` throws at present;
\* departed are the peers whose voice:user-left was the last event received
\* about them; massTimers are the 10000 ms timers pending that reset
\* _isMassJoinInProgress.
VcInit ==
  [joined |-> FALSE,
   peers |-> [p \in PeerIds |-> NoSession],
   keys |-> <<>>,
   anon |-> 0,
   connectionQueue |-> <<>>,
   isConnecting |-> FALSE,
   activeNegotiations |-> 0,
   connectionCooldowns |-> [p \in PeerIds |-> "none"],
   priorityPeers |-> {},
   queueTimers |-> EmptyBag,
   slotTimers |-> 0,
   pumpTimers |-> 0,
   pumps |-> EmptyBag,
   batchTimers |-> <<>>,
   anonTimers |-> 0,
   events |-> 0,
   dupQueued |-> FALSE,
   offerAfterLeave |-> FALSE,
   refuse |-> {},
   departed |-> {},
   isMassJoinInProgress |-> FALSE,
   massTimers |-> 0]

\* ================================================ Part III: playback, state
\* An AudioPlayer or VideoPlayer.  left is what its decoder has still to
\* write for the file; received is bytesReceived > 0; timer is the pump
\* interval; drain is the interval of the close handler of a looping player;
\* finishes and errors count its 'finish' and 'error' events.
NoPlayer ==
  [exists |-> FALSE, gen |-> 0, isVideo |-> FALSE, loop |-> FALSE,
   paused |-> TRUE, stopped |-> FALSE, timer |-> FALSE, buf |-> 0,
   ffmpeg |-> FALSE, ffmpegDone |-> FALSE, received |-> FALSE, left |-> 0,
   total |-> 0, drain |-> FALSE, framesSent |-> 0, finishes |-> 0, errors |-> 0]

\* Sizes of the decoded audio of a file: none, one and a half frames, the
\* isReady threshold of an audio file, the threshold of a video file.
AudioSizes == {0, FRAME_BYTES + FRAME_BYTES \div 2, 20 * FRAME_BYTES, 50 * FRAME_BYTES}

\* Sizes of the chunks the audio decoder writes (the last one is what is
\* left of the file).
AudioChunks == {25 * FRAME_BYTES}

\* Sizes of the decoded audio track of a video file: no track, or the
\* isReady threshold of a video file.
TrackSizes == {0, 50 * FRAME_BYTES}

\* Sizes of the decoded video of a file and of the video decoder's chunks.
VideoSizes == {VideoFrameSize + VideoFrameSize \div 2, 5 * VideoFrameSize}

VideoChunks == {5 * VideoFrameSize}

\* The instance's players after construction.  peersSize and hasConnected
\* stand for this._peers.size and _hasConnectedPeer(); listeners are the
\* once('peerJoin') listeners, timers the fallback and retry timers, each
\* with the call (gen) that set it; finish, videoFinish and error count the
\* instance's events; peerGone, connectedSeen and fired record history (one
\* session is followed from its creation to its destruction; fired also
\* keeps the retry timers set again for a playback that was over).
PbInit ==
  [player |-> NoPlayer,
   videoPlayer |-> NoPlayer,
   gen |-> 0,
   peersSize |-> 0,
   hasConnected |-> FALSE,
   listeners |-> {},
   timers |-> {},
   finish |-> 0,
   videoFinish |-> 0,
   error |-> 0,
   peerGone |-> FALSE,
   connectedSeen |-> FALSE,
   fired |-> {}]

\* ================================================ Part IV: timed admission
\* Time is counted in units of 100 ms.
Ms(n) == n \div 100

\* The peers of the participants list, by their index in it: as many as the
\* small tier admits without batches.
Listed == 0..(TierConfig.small.maxPeers - 1)

\* No timer / not yet.
Never == -1

\* The instance when the list arrives: now is the clock; peerTimers[i] is the
\* due time of the setTimeout of _onParticipants for the peer of index i;
\* queue, isConnecting, activeNegotiations are the instance's fields; sleep
\* is the wake time and the captured tier of the pump suspended in its
\* stagger sleep; pumpTimers and slotTimers are the due times of the timers
\* of _processConnectionQueue and _offerTo; offered[i] is the time at which
\* _offerTo built the session of peer i.
TqInit ==
  [arrived |-> FALSE,
   now |-> 0,
   peerTimers |-> [i \in Listed |-> Never],
   queue |-> <<>>,
   isConnecting |-> FALSE,
   activeNegotiations |-> 0,
   sleep |-> [at |-> Never, tier |-> TierConfig.small],
   pumpTimers |-> EmptyBag,
   slotTimers |-> EmptyBag,
   offered |-> [i \in Listed |-> Never]]

\* ================================================ Part V: video track, state
\* The video side of the instance towards one remote peer.  videoTrack is
\* this._videoTrack (0 is null, n the track made by the n-th playVideo),
\* videoType is this._videoType, videoPlayer and player are the playVideo
\* call that made this._videoPlayer and this._player (0 is null), running
\* are the players that are neither stopped nor finished, socket is
\* this._socket.connected, pc is the peer's RTCPeerConnection with the video
\* tracks of its senders in the order they were added, and sent are the last
\* two voice:screen-share / voice:video events put on the socket.
VideoTypes == {"screen", "camera"}

NoPc == [state |-> "none", senders |-> <<>>]

TrInit ==
  [videoTrack |-> 0, videoType |-> "none", videoPlayer |-> 0, player |-> 0,
   running |-> {}, socket |-> TRUE, pc |-> NoPc, sent |-> <<>>,
   calls |-> 0, joined |-> TRUE]

\* ================================================ Part VI: decoder, state
\* One AudioPlayer followed from its construction to after stop().  ffmpeg is
\* this._ffmpeg # null; procs are the decoder processes that have not closed
\* yet, in the order they were spawned, each with whether it was killed;
\* received is this._bytesReceived > 0; buf is this._buf.length; drains are
\* the drain intervals of the close handler; timer is the pump interval;
\* spawns, emptyExits, finishes and errors count the processes spawned, the
\* closes with no byte received, and the 'finish' and 'error' events.
MaxSpawns == 3

MaxBufFrames == 5

ApInit ==
  [started |-> FALSE, loop |-> FALSE, stopped |-> FALSE, paused |-> TRUE,
   ffmpegDone |-> FALSE, ffmpeg |-> FALSE, procs |-> <<>>, received |-> FALSE,
   buf |-> 0, drains |-> 0, timer |-> FALSE,
   spawns |-> 0, emptyExits |-> 0, finishes |-> 0, errors |-> 0]

\* ================================================= Part VII: Client, state
\* The Client and one server.  Call k of joinVoice is at at[k] ("idle" before
\* it is made, then suspended in its first or its second await, then
\* "done"); conn[k] is the VoiceConnection call k constructs ("none" before,
\* "joined" after join(), "left" after leave()); registered is the call whose
\* connection this._voiceConnections holds for the server (0: no entry);
\* micro are the suspended calls in the order their awaits resume.
MaxJoinCalls == 3

JoinCalls == 1..MaxJoinCalls

ClInit ==
  [at |-> [k \in JoinCalls |-> "idle"],
   conn |-> [k \in JoinCalls |-> "none"],
   registered |-> 0,
   micro |-> <<>>,
   leaves |-> 0]

\* ============================================== Part VIII: sessions, state
\* The sessions of one remote peer.  pcs[i] is the i-th RTCPeerConnection
\* built for the peer: its connectionState ("none" before it is built) and
\* the number of its connectionstatechange events that are queued but not
\* dispatched yet; built is the number of connections built; session is
\* whether this._peers has an entry for the peer and pc the connection the
\* entry owns; closeFires is whether pc.close() of the WebRTC build in use
\* queues a connectionstatechange event.
MaxPcs == 3

MaxPending == 2

Pcs == 1..MaxPcs

SgInit(closeFires) ==
  [session |-> FALSE, pc |-> 0, built |-> 0,
   pcs |-> [i \in Pcs |-> [state |-> "none", pending |-> 0]],
   closeFires |-> closeFires]

ExtInit == tq = TqInit /\ tr = TrInit /\ ap = ApInit /\ cl = ClInit /\ sg = SgInit(FALSE)

\* ---------------------------------------------------------------- Init
InitCtr ==
  [negFired |-> 0, candSent |-> 0, iceFails |-> 0, connFails |-> 0, errors |-> 0,
   answers |-> 0, rollbacks |-> 0, ignored |-> 0, collisions |-> 0,
   negSkipped |-> FALSE, restarts |-> 0]

SigInit ==
  /\ botId \in {f \in [Ends -> IdSet] : f[1] # f[2]}
  /\ ps = [e \in Ends |-> NoPeer]
  /\ chain = [e \in Ends |-> <<>>]
  /\ net = [e \in Ends |-> <<>>]
  /\ polls = [e \in Ends |-> EmptyBag]
  /\ applied = [e \in Ends |-> <<>>]
  /\ ctr = [e \in Ends |-> InitCtr]
  /\ vc = VcInit
  /\ pb = PbInit
  /\ ExtInit

\* ------------------------------------------------- Part I: offer routines
\* _offerTo reaches _getOrCreatePeerState: the session and its connection are
\* built (the admission around it is Part II).
AdmitPeer(e) ==
  /\ ~ps[e].exists
  /\ ps' = [ps EXCEPT ![e] = _getOrCreatePeerState(e)]
  /\ UNCHANGED <<botId, chain, net, polls, applied, ctr>>
  /\ UNCHANGED <<admVars, playVars, extVars>>

\* pc.onnegotiationneeded up to its first await.
NegotiationNeeded(e) ==
  /\ ps[e].exists
  /\ ctr[e].negFired < MaxNeg
  /\ IF ps[e].makingOffer \/ ps[e].signalingState # "stable"
     THEN /\ ctr' = [ctr EXCEPT ![e].negFired = @ + 1, ![e].negSkipped = TRUE]
          /\ UNCHANGED <<ps, chain>>
     ELSE /\ ps' = [ps EXCEPT ![e].makingOffer = TRUE]
          /\ chain' = [chain EXCEPT ![e] = Append(@, Frame("createOffer", "neg", <<>>))]
          /\ ctr' = [ctr EXCEPT ![e].negFired = @ + 1, ![e].negSkipped = FALSE]
  /\ UNCHANGED <<botId, net, polls, applied>>
  /\ UNCHANGED <<admVars, playVars, extVars>>

\* An offer routine whose abort after createOffer skips the finally block.
NegOfferAbortKeepsFlag(e) ==
  /\ HeadIs(e, "createOffer", "neg")
  /\ IF ps[e].signalingState # "stable"
     THEN /\ chain' = [chain EXCEPT ![e] = Tail(@)]
          /\ UNCHANGED ps
     ELSE /\ chain' = [chain EXCEPT ![e] = Append(Tail(@), Frame("setLocalOffer", "neg", <<>>))]
          /\ UNCHANGED ps
  /\ UNCHANGED <<botId, net, polls, applied, ctr>>
  /\ UNCHANGED <<admVars, playVars, extVars>>

\* onnegotiationneeded resumes after `await pc.createOffer()`.
NegOfferCreated(e) ==
  /\ HeadIs(e, "createOffer", "neg")
  /\ IF ps[e].signalingState # "stable"
     THEN /\ ps' = [ps EXCEPT ![e].makingOffer = FALSE]
          /\ chain' = [chain EXCEPT ![e] = Tail(@)]
     ELSE /\ chain' = [chain EXCEPT ![e] = Append(Tail(@), Frame("setLocalOffer", "neg", <<>>))]
          /\ UNCHANGED ps
  /\ UNCHANGED <<botId, net, polls, applied, ctr>>
  /\ UNCHANGED <<admVars, playVars, extVars>>

\* pc.oniceconnectionstatechange with 'failed', and _restartIce up to its
\* first await.
IceFailed(e) ==
  /\ ps[e].exists
  /\ ps[e].localDescSet /\ ps[e].remoteDescSet
  /\ ctr[e].iceFails < MaxIceFail
  /\ ctr' = [ctr EXCEPT ![e].iceFails = @ + 1]
  /\ IF ps[e].signalingState # "stable"
     THEN UNCHANGED <<ps, chain>>
     ELSE /\ ps' = [ps EXCEPT ![e].makingOffer = TRUE]
          /\ chain' = [chain EXCEPT ![e] = Append(@, Frame("createOffer", "restart", <<>>))]
  /\ UNCHANGED <<botId, net, polls, applied>>
  /\ UNCHANGED <<admVars, playVars, extVars>>

\* _restartIce: createOffer({iceRestart}) resolved, setLocalDescription called.
RestartOfferCreated(e) ==
  /\ HeadIs(e, "createOffer", "restart")
  /\ chain' = [chain EXCEPT ![e] = Append(Tail(@), Frame("setLocalOffer", "restart", <<>>))]
  /\ UNCHANGED <<botId, ps, net, polls, applied, ctr>>
  /\ UNCHANGED <<admVars, playVars, extVars>>

\* Either routine resumes after `await pc.setLocalDescription(offer)`: the
\* offer is emitted, or the rejection is caught and logged; finally
\* makingOffer = false.
LocalOfferSet(e) ==
  /\ chain[e] # <<>>
  /\ Head(chain[e]).op = "setLocalOffer"
  /\ chain' = [chain EXCEPT ![e] = Tail(@)]
  /\ IF CanSetLocalOffer(ps[e].signalingState)
     THEN /\ ps' = [ps EXCEPT ![e].signalingState = "have-local-offer",
                              ![e].localDescSet = TRUE,
                              ![e].makingOffer = FALSE]
          /\ net' = [net EXCEPT ![Other(e)] = Append(@, Msg("offer", 0))]
          /\ ctr' = [ctr EXCEPT ![e].restarts =
                        IF Head(chain[e]).by = "restart" THEN @ + 1 ELSE @]
     ELSE /\ ps' = [ps EXCEPT ![e].makingOffer = FALSE]
          /\ UNCHANGED <<net, ctr>>
  /\ UNCHANGED <<botId, polls, applied>>
  /\ UNCHANGED <<admVars, playVars, extVars>>

\* ------------------------------------------- Part I: candidates and polls
\* _pollForConnected(ps) with attempts = 0: one 250 ms timer is armed.
PollStarted(e) == [polls EXCEPT ![e] = @ (+) SetToBag({0})]

\* What a handler does once `await this._flushCandidates(ps)` has returned:
\* _onOffer goes on to createAnswer, _onAnswer to _pollForConnected.
AfterFlush(e, by, ch) ==
  IF by = "onOffer"
  THEN /\ chain' = [chain EXCEPT ![e] = Append(ch, Frame("createAnswer", "onOffer", <<>>))]
       /\ UNCHANGED polls
  ELSE /\ chain' = [chain EXCEPT ![e] = ch]
       /\ polls' = PollStarted(e)

\* A flush that hands only the first buffered candidate to the connection.
FlushFirstOnly(e, cands, by, ch) ==
  IF cands = <<>>
  THEN /\ AfterFlush(e, by, ch)
       /\ UNCHANGED applied
  ELSE /\ applied' = [applied EXCEPT ![e] = Append(@, Head(cands))]
       /\ chain' = [chain EXCEPT ![e] = Append(ch, Frame("addIceCandidate", by, <<>>))]
       /\ UNCHANGED polls

\* One turn of the loop of _flushCandidates over its local array `cands`:
\* the next candidate is handed to pc.addIceCandidate and awaited, or the
\* loop is over.  `ch` is the operations chain without the resumed frame.
FlushLoop(e, cands, by, ch) ==
  IF cands = <<>>
  THEN /\ AfterFlush(e, by, ch)
       /\ UNCHANGED applied
  ELSE /\ applied' = [applied EXCEPT ![e] = Append(@, Head(cands))]
       /\ chain' = [chain EXCEPT ![e] = Append(ch, Frame("addIceCandidate", by, Tail(cands)))]
       /\ UNCHANGED polls

\* _flushCandidates resumes after `await this._addIceCandidate(ps, c)`.
FlushNext(e) ==
  /\ chain[e] # <<>>
  /\ Head(chain[e]).op = "addIceCandidate"
  /\ Head(chain[e]).by \in {"onOffer", "onAnswer"}
  /\ FlushLoop(e, Head(chain[e]).rest, Head(chain[e]).by, Tail(chain[e]))
  /\ UNCHANGED <<botId, ps, net, ctr>>
  /\ UNCHANGED <<admVars, playVars, extVars>>

\* _onIceCandidate resumes after its own `await this._addIceCandidate`.
DirectAddDone(e) ==
  /\ HeadIs(e, "addIceCandidate", "onIceCandidate")
  /\ chain' = [chain EXCEPT ![e] = Tail(@)]
  /\ UNCHANGED <<botId, ps, net, polls, applied, ctr>>
  /\ UNCHANGED <<admVars, playVars, extVars>>

\* pc.onicecandidate: a gathered candidate is emitted to the remote peer.
IceCandidateGathered(e) ==
  /\ ps[e].exists
  /\ ps[e].localDescSet
  /\ ctr[e].candSent < MaxCand
  /\ ctr' = [ctr EXCEPT ![e].candSent = @ + 1]
  /\ net' = [net EXCEPT ![Other(e)] = Append(@, Msg("candidate", ctr[e].candSent + 1))]
  /\ UNCHANGED <<botId, ps, chain, polls, applied>>
  /\ UNCHANGED <<admVars, playVars, extVars>>

\* _onIceCandidate.
RecvIceCandidate(e) ==
  /\ HeadMsgIs(e, "candidate")
  /\ net' = [net EXCEPT ![e] = Tail(@)]
  /\ LET c == Head(net[e]).cand IN
     IF ~ps[e].exists
     THEN /\ ps' = [ps EXCEPT ![e] =
                      [_getOrCreatePeerState(e) EXCEPT !.pendingCandidates = Append(@, c)]]
          /\ UNCHANGED <<chain, applied>>
     ELSE IF ps[e].ignoreOffer
     THEN UNCHANGED <<ps, chain, applied>>
     ELSE IF ~ps[e].remoteDescSet
     THEN /\ ps' = [ps EXCEPT ![e].pendingCandidates = Append(@, c)]
          /\ UNCHANGED <<chain, applied>>
     ELSE /\ applied' = [applied EXCEPT ![e] = Append(@, c)]
          /\ chain' = [chain EXCEPT ![e] = Append(@, Frame("addIceCandidate", "onIceCandidate", <<>>))]
          /\ UNCHANGED ps
  /\ UNCHANGED <<botId, polls, ctr>>
  /\ UNCHANGED <<admVars, playVars, extVars>>

\* -------------------------------------------- Part I: _onOffer, _onAnswer
\* _onOffer up to its first await.
RecvOffer(e) ==
  /\ HeadMsgIs(e, "offer")
  /\ net' = [net EXCEPT ![e] = Tail(@)]
  /\ LET p == _getOrCreatePeerState(e)
         offerCollision == p.makingOffer \/ p.signalingState # "stable"
     IN
     IF ~p.polite /\ offerCollision
     THEN /\ ps' = [ps EXCEPT ![e] = [p EXCEPT !.ignoreOffer = TRUE]]
          /\ ctr' = [ctr EXCEPT ![e].ignored = @ + 1]
          /\ UNCHANGED chain
     ELSE /\ ps' = [ps EXCEPT ![e] = [p EXCEPT !.ignoreOffer = FALSE]]
          /\ chain' = [chain EXCEPT ![e] =
                Append(@, Frame(IF offerCollision THEN "rollback" ELSE "setRemoteOffer",
                                "onOffer", <<>>))]
          /\ ctr' = [ctr EXCEPT ![e].collisions = IF offerCollision THEN @ + 1 ELSE @]
  /\ UNCHANGED <<botId, polls, applied>>
  /\ UNCHANGED <<admVars, playVars, extVars>>

\* _onOffer resumes after `await pc.setLocalDescription({type: 'rollback'})`;
\* a rejection goes to the catch block, which emits 'error'.
RollbackDone(e) ==
  /\ HeadIs(e, "rollback", "onOffer")
  /\ IF CanRollback(ps[e].signalingState)
     THEN /\ ps' = [ps EXCEPT ![e].signalingState = "stable", ![e].makingOffer = FALSE]
          /\ chain' = [chain EXCEPT ![e] = Append(Tail(@), Frame("setRemoteOffer", "onOffer", <<>>))]
          /\ ctr' = [ctr EXCEPT ![e].rollbacks = @ + 1]
     ELSE /\ chain' = [chain EXCEPT ![e] = Tail(@)]
          /\ ctr' = [ctr EXCEPT ![e].errors = @ + 1]
          /\ UNCHANGED ps
  /\ UNCHANGED <<botId, net, polls, applied>>
  /\ UNCHANGED <<admVars, playVars, extVars>>

\* _onOffer resumes after `await pc.setRemoteDescription(offer)`:
\* remoteDescSet = true and the buffered candidates are flushed.
RemoteOfferSet(e) ==
  /\ HeadIs(e, "setRemoteOffer", "onOffer")
  /\ IF CanSetRemoteOffer(ps[e].signalingState)
     THEN /\ ps' = [ps EXCEPT ![e].signalingState = "have-remote-offer",
                              ![e].remoteDescSet = TRUE,
                              ![e].pendingCandidates = <<>>]
          /\ FlushLoop(e, ps[e].pendingCandidates, "onOffer", Tail(chain[e]))
          /\ UNCHANGED ctr
     ELSE /\ chain' = [chain EXCEPT ![e] = Tail(@)]
          /\ ctr' = [ctr EXCEPT ![e].errors = @ + 1]
          /\ UNCHANGED <<ps, polls, applied>>
  /\ UNCHANGED <<botId, net>>
  /\ UNCHANGED <<admVars, playVars, extVars>>

\* _onOffer resumes after `await pc.createAnswer()`.
AnswerCreated(e) ==
  /\ HeadIs(e, "createAnswer", "onOffer")
  /\ IF CanAnswer(ps[e].signalingState)
     THEN /\ chain' = [chain EXCEPT ![e] = Append(Tail(@), Frame("setLocalAnswer", "onOffer", <<>>))]
          /\ UNCHANGED ctr
     ELSE /\ chain' = [chain EXCEPT ![e] = Tail(@)]
          /\ ctr' = [ctr EXCEPT ![e].errors = @ + 1]
  /\ UNCHANGED <<botId, ps, net, polls, applied>>
  /\ UNCHANGED <<admVars, playVars, extVars>>

\* _onOffer resumes after `await pc.setLocalDescription(answer)`: the answer
\* is emitted and the connected poll is started.
LocalAnswerSet(e) ==
  /\ HeadIs(e, "setLocalAnswer", "onOffer")
  /\ chain' = [chain EXCEPT ![e] = Tail(@)]
  /\ IF CanAnswer(ps[e].signalingState)
     THEN /\ ps' = [ps EXCEPT ![e].signalingState = "stable", ![e].localDescSet = TRUE]
          /\ net' = [net EXCEPT ![Other(e)] = Append(@, Msg("answer", 0))]
          /\ ctr' = [ctr EXCEPT ![e].answers = @ + 1]
          /\ polls' = PollStarted(e)
     ELSE /\ ctr' = [ctr EXCEPT ![e].errors = @ + 1]
          /\ UNCHANGED <<ps, net, polls>>
  /\ UNCHANGED <<botId, applied>>
  /\ UNCHANGED <<admVars, playVars, extVars>>

\* _onAnswer up to its first await.
RecvAnswer(e) ==
  /\ HeadMsgIs(e, "answer")
  /\ net' = [net EXCEPT ![e] = Tail(@)]
  /\ IF ~ps[e].exists \/ ps[e].signalingState = "stable"
     THEN UNCHANGED chain
     ELSE chain' = [chain EXCEPT ![e] = Append(@, Frame("setRemoteAnswer", "onAnswer", <<>>))]
  /\ UNCHANGED <<botId, ps, polls, applied, ctr>>
  /\ UNCHANGED <<admVars, playVars, extVars>>

\* _onAnswer resumes after `await ps.pc.setRemoteDescription(answer)`; a
\* rejection is caught and only logged.
RemoteAnswerSet(e) ==
  /\ HeadIs(e, "setRemoteAnswer", "onAnswer")
  /\ IF CanSetRemoteAnswer(ps[e].signalingState)
     THEN /\ ps' = [ps EXCEPT ![e].signalingState = "stable",
                              ![e].remoteDescSet = TRUE,
                              ![e].ignoreOffer = FALSE,
                              ![e].pendingCandidates = <<>>]
          /\ FlushLoop(e, ps[e].pendingCandidates, "onAnswer", Tail(chain[e]))
     ELSE /\ chain' = [chain EXCEPT ![e] = Tail(@)]
          /\ UNCHANGED <<ps, polls, applied>>
  /\ UNCHANGED <<botId, net, ctr>>
  /\ UNCHANGED <<admVars, playVars, extVars>>

\* ----------------------------------- Part I: connection state, connected poll
\* The connected announcement behind the _peerJoinEmitted latch:
\* _onPeerConnected() and emit('peerJoin').
Announce(p) ==
  IF p.peerJoinEmitted THEN p
  ELSE [p EXCEPT !.peerJoinEmitted = TRUE, !.connectedCalls = @ + 1, !.peerJoins = @ + 1]

\* Transitions of RTCPeerConnection.connectionState the ICE agent can make.
ConnSucc(p) ==
  CASE p.connectionState = "new" ->
         IF p.localDescSet /\ p.remoteDescSet THEN {"connecting"} ELSE {}
    [] p.connectionState = "connecting" -> {"connected", "failed"}
    [] p.connectionState = "connected" -> {"disconnected"}
    [] p.connectionState = "disconnected" -> {"connected", "failed"}
    [] OTHER -> {}

\* pc.onconnectionstatechange.
ConnStateChange(e, s) ==
  /\ ps[e].exists
  /\ s \in ConnSucc(ps[e])
  /\ s = "failed" => ctr[e].connFails < MaxIceFail
  /\ IF s = "failed"
     THEN \* _destroyPeerState: pc.close(), this._peers.delete
          /\ ps' = [ps EXCEPT ![e] = NoPeer]
          /\ chain' = [chain EXCEPT ![e] = <<>>]
          /\ polls' = [polls EXCEPT ![e] = EmptyBag]
          /\ ctr' = [ctr EXCEPT ![e].connFails = @ + 1]
     ELSE /\ ps' = [ps EXCEPT ![e] =
                 IF s = "connected"
                 THEN Announce([ps[e] EXCEPT !.connectionState = s])
                 ELSE [ps[e] EXCEPT !.connectionState = s]]
          /\ UNCHANGED <<chain, polls, ctr>>
  /\ UNCHANGED <<botId, net, applied>>
  /\ UNCHANGED <<admVars, playVars, extVars>>

\* The transition to 'connected' for which wrtc fires no event.
ConnectedSilently(e) ==
  /\ ps[e].exists
  /\ "connected" \in ConnSucc(ps[e])
  /\ ps' = [ps EXCEPT ![e].connectionState = "connected"]
  /\ UNCHANGED <<botId, chain, net, polls, applied, ctr>>
  /\ UNCHANGED <<admVars, playVars, extVars>>

\* The 250 ms timer of _pollForConnected(ps, a) fires; rescheduling calls
\* _pollForConnected(ps, a + 1), which at MAX calls _onPeerConnected().
PollTick(e, a) ==
  /\ ps[e].exists
  /\ BagIn(a, polls[e])
  /\ LET rest == polls[e] (-) SetToBag({a}) IN
     IF ps[e].connectionState = "connected"
     THEN /\ ps' = [ps EXCEPT ![e] = Announce(@)]
          /\ polls' = [polls EXCEPT ![e] = rest]
     ELSE IF ps[e].connectionState \in {"failed", "closed"}
     THEN /\ polls' = [polls EXCEPT ![e] = rest]
          /\ UNCHANGED ps
     ELSE IF a + 1 >= PollMax
     THEN /\ ps' = [ps EXCEPT ![e].connectedCalls = @ + 1]
          /\ polls' = [polls EXCEPT ![e] = rest]
     ELSE /\ polls' = [polls EXCEPT ![e] = rest (+) SetToBag({a + 1})]
          /\ UNCHANGED ps
  /\ UNCHANGED <<botId, chain, net, applied, ctr>>
  /\ UNCHANGED <<admVars, playVars, extVars>>

\* ------------------------------------------------------ Part I: behaviours
\* Both endpoints negotiate; all pairs of distinct IDs.
NegotiationStep(e) ==
  \/ AdmitPeer(e)
  \/ NegotiationNeeded(e)
  \/ NegOfferCreated(e)
  \/ LocalOfferSet(e)
  \/ RecvOffer(e)
  \/ RollbackDone(e)
  \/ RemoteOfferSet(e)
  \/ AnswerCreated(e)
  \/ LocalAnswerSet(e)
  \/ RecvAnswer(e)
  \/ RemoteAnswerSet(e)

Next == \E e \in Ends : NegotiationStep(e)

Spec == SigInit /\ [][Next]_vars

\* Endpoint 1 has the smaller ID (is polite), endpoint 2 the larger.
FixedIdInit == SigInit /\ botId = [e \in Ends |-> <<e>>]

\* Negotiation with ICE failures and _restartIce.
NextRestart ==
  \E e \in Ends :
    \/ NegotiationStep(e)
    \/ IceFailed(e)
    \/ RestartOfferCreated(e)

SpecRestart == FixedIdInit /\ [][NextRestart]_vars

\* Negotiation with ICE candidates.
NextIce ==
  \E e \in Ends :
    \/ NegotiationStep(e) /\ ctr'[e].negFired <= OneNeg
    \/ IceCandidateGathered(e)
    \/ RecvIceCandidate(e)
    \/ FlushNext(e)
    \/ DirectAddDone(e)

SpecIce == FixedIdInit /\ [][NextIce]_vars

\* Endpoint 2 offers, endpoint 1 answers; the connection state of endpoint
\* 1's session and its connected polls are followed.
NextConn ==
  \/ AdmitPeer(2)
  \/ NegotiationNeeded(2)
  \/ NegOfferCreated(2)
  \/ LocalOfferSet(2)
  \/ RecvOffer(1)
  \/ RemoteOfferSet(1)
  \/ AnswerCreated(1)
  \/ LocalAnswerSet(1)
  \/ RecvAnswer(2)
  \/ RemoteAnswerSet(2)
  \/ \E s \in {"connecting", "connected", "disconnected", "failed"} : ConnStateChange(1, s)
  \/ ConnectedSilently(1)
  \/ \E a \in 0..(PollMax - 1) : PollTick(1, a)

SpecConn == FixedIdInit /\ [][NextConn]_vars

\* A candidate of X (endpoint 2) overtakes X's offer: X has set and sent its
\* offer and gathered one candidate; the local endpoint (1) has no session
\* for X and receives the candidate first.  Both orders of the IDs.
CandFirstInit ==
  /\ botId \in {f \in [Ends -> IdSet] : f[1] # f[2]}
  /\ ps = [e \in Ends |->
             IF e = 1 THEN NoPeer
             ELSE [NewPeerState(2) EXCEPT !.signalingState = "have-local-offer",
                                          !.localDescSet = TRUE]]
  /\ chain = [e \in Ends |-> <<>>]
  /\ net = [e \in Ends |-> IF e = 1 THEN <<Msg("candidate", 1), Msg("offer", 0)>>
                           ELSE <<>>]
  /\ polls = [e \in Ends |-> EmptyBag]
  /\ applied = [e \in Ends |-> <<>>]
  /\ ctr = [e \in Ends |-> IF e = 1 THEN InitCtr
                           ELSE [InitCtr EXCEPT !.negFired = 1, !.candSent = 1]]
  /\ vc = VcInit
  /\ pb = PbInit
  /\ ExtInit

\* No endpoint admits the other by itself: the only session of endpoint 1 is
\* the one _onIceCandidate or _onOffer creates.
NextCandFirst ==
  \E e \in Ends :
    \/ NegotiationNeeded(e) /\ ctr'[e].negFired <= OneNeg
    \/ NegOfferCreated(e)
    \/ LocalOfferSet(e)
    \/ RecvOffer(e)
    \/ RollbackDone(e)
    \/ RemoteOfferSet(e)
    \/ AnswerCreated(e)
    \/ LocalAnswerSet(e)
    \/ RecvAnswer(e)
    \/ RemoteAnswerSet(e)
    \/ RecvIceCandidate(e)
    \/ FlushNext(e)

SpecCandFirst == CandFirstInit /\ [][NextCandFirst]_vars

\* ======================================== Part II: admission, operations
Min(a, b) == IF a < b THEN a ELSE b

\* this._peers.size
PeersSize(v) == Len(v.keys) + v.anon

\* A tier selection that compares with < where the code compares with <=.
TierBelowThreshold(v) ==
  LET count == PeersSize(v) + Len(v.connectionQueue) IN
  IF count < TierConfig.small.maxPeers THEN TierConfig.small
  ELSE IF count < TierConfig.medium.maxPeers THEN TierConfig.medium
  ELSE IF count < TierConfig.large.maxPeers THEN TierConfig.large
  ELSE TierConfig.massive

_getTierConfig(v) ==
  LET count == PeersSize(v) + Len(v.connectionQueue) IN
  IF count <= TierConfig.small.maxPeers THEN TierConfig.small
  ELSE IF count <= TierConfig.medium.maxPeers THEN TierConfig.medium
  ELSE IF count <= TierConfig.large.maxPeers THEN TierConfig.large
  ELSE TierConfig.massive

_canAcceptPeer(v, peerId) ==
  IF peerId \in v.priorityPeers THEN TRUE
  ELSE IF PeersSize(v) >= MaxConnectedPeers THEN FALSE
  ELSE TRUE

\* _getOrCreatePeerState as the admission code sees it.
NeedsBuild(v, remoteId) ==
  \/ ~v.peers[remoteId].exists
  \/ v.peers[remoteId].connectionState \in {"none", "closed", "failed"}

\* _buildPeerConnection throws in its `new this._RTCPeerConnection(...)`.
BuildThrows(v, remoteId) == NeedsBuild(v, remoteId) /\ remoteId \in v.refuse

\* What _getOrCreatePeerState has done when _buildPeerConnection throws: the
\* entry is in the map, an old pc is closed, ps.pc is not assigned.
FailedBuild(v, remoteId) ==
  [v EXCEPT !.peers[remoteId] =
              IF v.peers[remoteId].exists /\ v.peers[remoteId].connectionState # "none"
              THEN [PcLessSession EXCEPT !.connectionState = "closed"]
              ELSE PcLessSession,
            !.keys = IF v.peers[remoteId].exists THEN @ ELSE Append(@, remoteId)]

GetOrCreateSession(v, remoteId) ==
  IF NeedsBuild(v, remoteId)
  THEN [v EXCEPT !.peers[remoteId] = FreshSession,
                 !.keys = IF v.peers[remoteId].exists THEN @ ELSE Append(@, remoteId)]
  ELSE v

_destroyPeerState(v, remoteId) ==
  [v EXCEPT !.peers[remoteId] = NoSession,
            !.keys = SelectSeq(@, LAMBDA k : k # remoteId)]

Connecting(v, remoteId) ==
  /\ v.peers[remoteId].exists
  /\ v.peers[remoteId].connectionState \in {"connected", "connecting"}

Max0(n) == IF n < 0 THEN 0 ELSE n

\* _offerTo without the 3000 ms timer that releases the slot.
OfferToKeepsSlot(v, remoteId) ==
  IF Connecting(v, remoteId) \/ (v.peers[remoteId].exists /\ v.peers[remoteId].makingOffer)
  THEN [v EXCEPT !.activeNegotiations = Max0(@ - 1)]
  ELSE GetOrCreateSession(v, remoteId)

_offerTo(v, remoteId) ==
  IF Connecting(v, remoteId) \/ (v.peers[remoteId].exists /\ v.peers[remoteId].makingOffer)
  THEN [v EXCEPT !.activeNegotiations = Max0(@ - 1)]
  ELSE [GetOrCreateSession(v, remoteId) EXCEPT !.slotTimers = @ + 1]

\* The try/catch of _processConnectionQueue around _offerTo: an exception of
\* _getOrCreatePeerState leaves _offerTo before its timer is set.
OfferCaught(v, remoteId) ==
  IF ~Connecting(v, remoteId)
     /\ ~(v.peers[remoteId].exists /\ v.peers[remoteId].makingOffer)
     /\ BuildThrows(v, remoteId)
  THEN [FailedBuild(v, remoteId) EXCEPT !.activeNegotiations = Max0(@ - 1)]
  ELSE _offerTo(v, remoteId)

\* The while loop of _processConnectionQueue, run until it is suspended in its
\* stagger sleep (the execution and the tier it captured join v.pumps) or
\* left (what follows the loop is done).
RECURSIVE PumpLoop(_, _)
PumpLoop(v, tier) ==
  IF v.connectionQueue # <<>> /\ v.activeNegotiations < tier.concurrent
  THEN LET remoteId == Head(v.connectionQueue)
           v1 == [v EXCEPT !.connectionQueue = Tail(@)]
       IN IF Connecting(v1, remoteId)
             \/ (v1.peers[remoteId].exists /\ v1.peers[remoteId].makingOffer)
          THEN PumpLoop(v1, tier)
          ELSE LET v2 == OfferCaught([v1 EXCEPT !.activeNegotiations = @ + 1,
                                                !.connectionCooldowns[remoteId] = "hot"],
                                     remoteId)
               IN IF v2.connectionQueue # <<>>
                  THEN [v2 EXCEPT !.pumps = @ (+) SetToBag({tier})]
                  ELSE PumpLoop(v2, tier)
  ELSE [v EXCEPT !.isConnecting = FALSE,
                 !.pumpTimers = IF v.connectionQueue # <<>> THEN @ + 1 ELSE @]

_processConnectionQueue(v) ==
  IF v.isConnecting THEN v
  ELSE PumpLoop([v EXCEPT !.isConnecting = TRUE], _getTierConfig(v))

InQueue(v, remoteId) ==
  \E i \in DOMAIN v.connectionQueue : v.connectionQueue[i] = remoteId

\* _queueConnection putting the peer at the head of the queue.
QueueConnectionAtFront(v, remoteId) ==
  IF ~_canAcceptPeer(v, remoteId) THEN v
  ELSE IF v.connectionCooldowns[remoteId] = "hot" THEN v
  ELSE IF InQueue(v, remoteId) THEN [v EXCEPT !.dupQueued = TRUE]
  ELSE IF Connecting(v, remoteId) THEN v
  ELSE _processConnectionQueue([v EXCEPT !.connectionQueue = <<remoteId>> \o @])

\* _queueConnection without its `includes` test.
QueueConnectionUnchecked(v, remoteId) ==
  IF ~_canAcceptPeer(v, remoteId) THEN v
  ELSE IF v.connectionCooldowns[remoteId] = "hot" THEN v
  ELSE IF Connecting(v, remoteId) THEN v
  ELSE _processConnectionQueue([v EXCEPT !.connectionQueue = Append(@, remoteId)])

_queueConnection(v, remoteId) ==
  IF ~_canAcceptPeer(v, remoteId) THEN v
  ELSE IF v.connectionCooldowns[remoteId] = "hot" THEN v
  ELSE IF InQueue(v, remoteId) THEN [v EXCEPT !.dupQueued = TRUE]
  ELSE IF Connecting(v, remoteId) THEN v
  ELSE _processConnectionQueue([v EXCEPT !.connectionQueue = Append(@, remoteId)])

\* ----------------------------------------------- Part II: handlers, timers
Step(v) == vc' = v /\ UNCHANGED <<sigVars, playVars, extVars>>

\* join()
Join ==
  /\ ~vc.joined
  /\ Step([vc EXCEPT !.joined = TRUE, !.offerAfterLeave = FALSE])

\* leave(): the timers set with setTimeout are not cleared.
Leave ==
  /\ vc.joined
  /\ Step([vc EXCEPT !.peers = [p \in PeerIds |-> NoSession],
                     !.keys = <<>>,
                     !.anon = 0,
                     !.connectionQueue = <<>>,
                     !.isConnecting = FALSE,
                     !.activeNegotiations = 0,
                     !.connectionCooldowns = [p \in PeerIds |-> "none"],
                     !.departed = {},
                     !.joined = FALSE])

\* Sequences of distinct peer IDs.
PeerLists ==
  {l \in UNION {[1..n -> PeerIds] : n \in 1..NPeers} :
     \A i, j \in DOMAIN l : i # j => l[i] # l[j]}

RECURSIVE SeqToBag(_)
SeqToBag(l) == IF l = <<>> THEN EmptyBag ELSE SetToBag({Head(l)}) (+) SeqToBag(Tail(l))

\* _onParticipants with a list no longer than the tier's maxPeers: one
\* timer per peer.
OnParticipants(peerIds) ==
  /\ vc.joined
  /\ vc.events < MaxAdmEvents
  /\ Len(peerIds) <= _getTierConfig(vc).maxPeers
  /\ Step([vc EXCEPT !.queueTimers = @ (+) SeqToBag(peerIds), !.events = @ + 1,
                     !.departed = @ \ {peerIds[i] : i \in DOMAIN peerIds},
                     !.isMassJoinInProgress = @ \/ Len(peerIds) > 10])

OnUserJoined(userId) ==
  /\ vc.joined
  /\ vc.events < MaxAdmEvents
  /\ IF ~_canAcceptPeer(vc, userId)
     THEN Step([vc EXCEPT !.events = @ + 1, !.departed = @ \ {userId}])
     ELSE Step([vc EXCEPT !.queueTimers = @ (+) SetToBag({userId}), !.events = @ + 1,
                          !.departed = @ \ {userId}])

OnUserLeft(userId) ==
  /\ vc.joined
  /\ Step([_destroyPeerState(vc, userId) EXCEPT !.departed = @ \cup {userId}])

\* The loop of _onForceReconnect over [...this._peers.keys()].
RECURSIVE RebuildAll(_, _)
RebuildAll(v, ks) ==
  IF ks = <<>> THEN v
  ELSE RebuildAll(_queueConnection(_destroyPeerState(v, Head(ks)), Head(ks)), Tail(ks))

\* The values of targetPeer: the bot's own ID, 'all', or a peer's ID.
Targets ==
  {[kind |-> "botId", id |-> 0], [kind |-> "all", id |-> 0]}
    \cup {[kind |-> "peer", id |-> p] : p \in PeerIds}

\* _onForceReconnect; the sessions that are only counted are not followed
\* through a rebuild, so targetPeer = botId is taken when there are none.
OnForceReconnect(targetPeer) ==
  /\ vc.joined
  /\ vc.events < MaxAdmEvents
  /\ LET v == [vc EXCEPT !.events = @ + 1] IN
     IF targetPeer.kind = "botId"
     THEN vc.anon = 0 /\ Step(RebuildAll(v, v.keys))
     ELSE IF targetPeer.kind = "all"
     THEN Step(v)
     ELSE Step(_queueConnection(_destroyPeerState([v EXCEPT !.departed = @ \ {targetPeer.id}],
                                                  targetPeer.id),
                                targetPeer.id))

\* A timer set by _onParticipants or _onUserJoined fires.
QueueTimerFires(remoteId) ==
  /\ BagIn(remoteId, vc.queueTimers)
  /\ Step(_queueConnection([vc EXCEPT !.queueTimers = @ (-) SetToBag({remoteId})],
                           remoteId))

\* The stagger sleep of a _processConnectionQueue execution ends.
PumpWake(tier) ==
  /\ BagIn(tier, vc.pumps)
  /\ Step(PumpLoop([vc EXCEPT !.pumps = @ (-) SetToBag({tier})], tier))

\* The timer set at the end of _processConnectionQueue fires.
PumpTimerFires ==
  /\ vc.pumpTimers > 0
  /\ Step(_processConnectionQueue([vc EXCEPT !.pumpTimers = @ - 1]))

\* The 3000 ms timer set by _offerTo fires.
SlotTimerFires ==
  /\ vc.slotTimers > 0
  /\ Step(_processConnectionQueue(
            [vc EXCEPT !.slotTimers = @ - 1,
                       !.activeNegotiations = Max0(@ - 1)]))

\* _onOffer or _onIceCandidate for a message from remoteId, up to its call
\* of _getOrCreatePeerState.
InboundSignal(remoteId) ==
  /\ vc.joined
  /\ LET v == [vc EXCEPT !.departed = @ \ {remoteId}] IN
     IF BuildThrows(v, remoteId)
     THEN Step(FailedBuild(v, remoteId))
     ELSE Step(GetOrCreateSession(v, remoteId))

\* The same for a peer outside PeerIds that has no session yet.
AnonSignal ==
  /\ vc.joined
  /\ vc.anon < MaxAnon
  /\ Step([vc EXCEPT !.anon = @ + 1])

\* _onUserLeft for a peer outside PeerIds that has a session.
AnonLeft ==
  /\ vc.joined
  /\ vc.anon > 0
  /\ Step([vc EXCEPT !.anon = @ - 1])

\* pc.onnegotiationneeded of a freshly built connection, up to its await.
SessionNegotiationNeeded(remoteId) ==
  /\ vc.peers[remoteId].exists
  /\ vc.peers[remoteId].negPending
  /\ Step([vc EXCEPT !.peers[remoteId].negPending = FALSE,
                     !.peers[remoteId].makingOffer = TRUE])

\* The rest of onnegotiationneeded: voice:offer is emitted, makingOffer reset.
SessionOfferEmitted(remoteId) ==
  /\ vc.peers[remoteId].exists
  /\ vc.peers[remoteId].makingOffer
  /\ Step([vc EXCEPT !.peers[remoteId].makingOffer = FALSE,
                     !.offerAfterLeave = @ \/ ~vc.joined])

\* pc.onconnectionstatechange: 'failed' destroys the session.
SessionConnState(remoteId, s) ==
  /\ vc.peers[remoteId].exists
  /\ ~vc.peers[remoteId].negPending
  /\ \/ s = "connecting" /\ vc.peers[remoteId].connectionState = "new"
     \/ s = "connected" /\ vc.peers[remoteId].connectionState = "connecting"
     \/ s = "failed" /\ vc.peers[remoteId].connectionState = "connecting"
  /\ IF s = "failed"
     THEN Step(_destroyPeerState(vc, remoteId))
     ELSE Step([vc EXCEPT !.peers[remoteId].connectionState = s])

\* Time passes: the cooldown of remoteId is over.
CooldownElapsed(remoteId) ==
  /\ vc.connectionCooldowns[remoteId] = "hot"
  /\ Step([vc EXCEPT !.connectionCooldowns[remoteId] = "cold"])

setPeerPriority(peerId, isPriority) ==
  /\ (peerId \in vc.priorityPeers) # isPriority
  /\ Step([vc EXCEPT !.priorityPeers = IF isPriority THEN @ \cup {peerId}
                                      ELSE @ \ {peerId}])

\* ---------------------------------------------------- Part II: behaviours
AdmInit == SigInit /\ botId = [e \in Ends |-> <<e>>]

\* Admission of the peers in PeerIds.
NextAdm ==
  \/ Join
  \/ Leave
  \/ \E l \in PeerLists : OnParticipants(l)
  \/ \E p \in PeerIds : OnUserJoined(p)
  \/ \E p \in PeerIds : OnUserLeft(p)
  \/ \E t \in Targets : OnForceReconnect(t)
  \/ \E p \in PeerIds : QueueTimerFires(p)
  \/ \E t \in Tiers : PumpWake(t)
  \/ PumpTimerFires
  \/ SlotTimerFires
  \/ \E p \in PeerIds : InboundSignal(p)
  \/ \E p \in PeerIds : SessionNegotiationNeeded(p)
  \/ \E p \in PeerIds : SessionOfferEmitted(p)
  \/ \E p \in PeerIds : \E s \in {"connecting", "connected", "failed"} : SessionConnState(p, s)
  \/ \E p \in PeerIds : CooldownElapsed(p)

SpecAdm == AdmInit /\ [][NextAdm]_vars

\* The WebRTC stack starts or stops refusing connections for remoteId.
StackRefuses(remoteId, refuses) ==
  /\ (remoteId \in vc.refuse) # refuses
  /\ Step([vc EXCEPT !.refuse = IF refuses THEN @ \cup {remoteId} ELSE @ \ {remoteId}])

\* Admission while the construction of a connection may throw.
NextBuild ==
  \/ NextAdm
  \/ \E p \in PeerIds : \E refuses \in BOOLEAN : StackRefuses(p, refuses)

SpecBuild == AdmInit /\ [][NextBuild]_vars

\* Lengths of a participants list of peers that are not in PeerIds.
ListLengths == {5, 11, 26, 51, 60}

\* _processPeerBatches for a list of n peers: one timer per batch.
_processPeerBatches(v, n) ==
  LET tier == _getTierConfig(v)
      batchSize == Min(tier.maxPeers, 20)
      count == (n + batchSize - 1) \div batchSize
  IN [v EXCEPT !.batchTimers =
        @ \o [i \in 1..count |->
                [size |-> Min(batchSize, n - (i - 1) * batchSize),
                 delay |-> (i - 1) * 5000,
                 last |-> i = count,
                 staggerBase |-> tier.staggerBase,
                 staggerPerPeer |-> tier.staggerPerPeer]]]

\* _onParticipants with a list of n peers that are not in PeerIds.
OnParticipantsMany(n) ==
  /\ vc.joined
  /\ vc.events < MaxAdmEvents
  /\ LET v == [vc EXCEPT !.events = @ + 1,
                         !.isMassJoinInProgress = @ \/ n > 10] IN
     IF n > _getTierConfig(v).maxPeers
     THEN Step(_processPeerBatches(v, n))
     ELSE Step([v EXCEPT !.anonTimers = @ + n])

\* The timer of a batch fires (no batch timer set before it with a delay
\* not longer is pending): a timer for each peer of the batch that
\* _canAcceptPeer lets in.
BatchTimerFires(i) ==
  /\ i \in DOMAIN vc.batchTimers
  /\ \A j \in 1..(i - 1) : vc.batchTimers[j].delay > vc.batchTimers[i].delay
  /\ LET rest == [k \in 1..(Len(vc.batchTimers) - 1) |->
                    IF k < i THEN vc.batchTimers[k] ELSE vc.batchTimers[k + 1]]
     IN Step([vc EXCEPT !.batchTimers = rest,
                        !.anonTimers = IF PeersSize(vc) >= MaxConnectedPeers THEN @
                                       ELSE @ + vc.batchTimers[i].size,
                        !.massTimers = IF vc.batchTimers[i].last THEN @ + 1 ELSE @])

\* The 10000 ms timer set by the callback of the last batch fires.
BatchDone(v) ==
  [v EXCEPT !.isMassJoinInProgress = FALSE, !.massTimers = @ - 1]

MassJoinTimerFires ==
  /\ vc.massTimers > 0
  /\ Step(BatchDone(vc))

\* A joined instance with any number of sessions opened by peers' offers.
BatchInit ==
  /\ botId = [e \in Ends |-> <<e>>]
  /\ ps = [e \in Ends |-> NoPeer]
  /\ chain = [e \in Ends |-> <<>>]
  /\ net = [e \in Ends |-> <<>>]
  /\ polls = [e \in Ends |-> EmptyBag]
  /\ applied = [e \in Ends |-> <<>>]
  /\ ctr = [e \in Ends |-> InitCtr]
  /\ vc \in {[VcInit EXCEPT !.joined = TRUE, !.anon = k] : k \in 0..MaxConnectedPeers}
  /\ pb = PbInit
  /\ ExtInit

\* Participants lists of many peers and their batches (a list of 60 peers
\* makes at most 6 batches).
NextBatch ==
  \/ \E n \in ListLengths : OnParticipantsMany(n)
  \/ \E i \in 1..(MaxAdmEvents * 6) : BatchTimerFires(i)
  \/ MassJoinTimerFires

SpecBatch == BatchInit /\ [][NextBatch]_vars

\* The voice events of _registerSocketListeners.
EventTypes ==
  {"participants", "user-joined", "user-left", "offer", "answer",
   "ice-candidate", "force-reconnect"}

\* Whether the handler of the event compares the payload's channelId with
\* this._channelId before anything else.
ChecksChannel(type) == type \notin {"user-joined", "user-left"}

\* An event of the given type about remoteId arrives with the channelId of
\* another channel.
ForeignEvent(type, remoteId) ==
  /\ vc.joined
  /\ vc.events < MaxAdmEvents
  /\ LET v == [vc EXCEPT !.events = @ + 1] IN
     IF ChecksChannel(type) THEN Step(v)
     ELSE IF type = "user-left" THEN Step(_destroyPeerState(v, remoteId))
     ELSE IF ~_canAcceptPeer(v, remoteId) THEN Step(v)
     ELSE Step([v EXCEPT !.queueTimers = @ (+) SetToBag({remoteId})])

\* Admission while events of other channels arrive as well.
NextChannel ==
  \/ NextAdm
  \/ \E type \in EventTypes : \E p \in PeerIds : ForeignEvent(type, p)

SpecChannel == AdmInit /\ [][NextChannel]_vars

\* ========================================== Part III: playback, operations
\* AudioPlayer._spawnFfmpeg / VideoPlayer._spawnFfmpeg for a file that exists.
_spawnFfmpeg(p) ==
  IF p.stopped THEN p
  ELSE [p EXCEPT !.ffmpegDone = FALSE, !.received = FALSE, !.ffmpeg = TRUE,
                 !.left = p.total]

\* new AudioPlayer(...) / new VideoPlayer(...) followed by start().
StartedPlayer(gen, isVideo, loop, total) ==
  _spawnFfmpeg([NoPlayer EXCEPT !.exists = TRUE, !.gen = gen, !.isVideo = isVideo,
                                !.loop = loop, !.total = total])

unpause(p) ==
  IF ~p.paused THEN p
  ELSE [p EXCEPT !.paused = FALSE, !.timer = @ \/ ~p.stopped]

stop(p) == [p EXCEPT !.stopped = TRUE, !.ffmpeg = FALSE, !.timer = FALSE, !.buf = 0]

\* AudioPlayer.isReady
AudioIsReady(p) ==
  IF p.stopped THEN FALSE
  ELSE p.buf >= (IF p.isVideo THEN FRAME_BYTES * 50 ELSE FRAME_BYTES * 20)

\* VideoPlayer.isReady
VideoIsReady(p) ==
  IF p.stopped THEN FALSE ELSE p.buf >= VideoFrameSize * 5

\* A pump that reports the end of the file as soon as its buffer is empty,
\* whether or not the decoder has closed.
PumpIgnoringDecoder(p, frameSize) ==
  IF p.stopped \/ p.paused THEN p
  ELSE IF p.buf >= frameSize
  THEN [p EXCEPT !.buf = @ - frameSize, !.framesSent = Min(@ + 1, MaxFrames)]
  ELSE IF p.buf > 0
  THEN [p EXCEPT !.buf = frameSize]
  ELSE IF ~p.loop /\ ~p.stopped
  THEN [stop(p) EXCEPT !.finishes = @ + 1]
  ELSE p

\* One tick of the pump interval of a player with frames of frameSize bytes
\* (framesSent, which the code only logs, is counted up to MaxFrames).
_pump(p, frameSize) ==
  IF p.stopped \/ p.paused THEN p
  ELSE IF p.buf >= frameSize
  THEN [p EXCEPT !.buf = @ - frameSize, !.framesSent = Min(@ + 1, MaxFrames)]
  ELSE IF p.buf > 0
  THEN [p EXCEPT !.buf = frameSize]
  ELSE IF p.ffmpegDone /\ ~p.loop /\ ~p.stopped
  THEN [stop(p) EXCEPT !.finishes = @ + 1]
  ELSE p

\* stdout 'data' of the decoder.
OnData(p, chunk) ==
  [p EXCEPT !.buf = @ + Min(chunk, p.left), !.left = @ - Min(chunk, p.left),
            !.received = TRUE]

\* 'close' of the decoder.
OnClose(p) ==
  LET q == [p EXCEPT !.ffmpeg = FALSE, !.ffmpegDone = TRUE] IN
  IF ~q.received THEN [q EXCEPT !.errors = @ + 1]
  ELSE IF ~q.stopped /\ q.loop THEN [q EXCEPT !.drain = TRUE]
  ELSE q

\* One tick of the drain interval set by the close handler.
OnDrain(p, frameSize) ==
  IF p.stopped THEN [p EXCEPT !.drain = FALSE]
  ELSE IF p.buf < frameSize
  THEN _spawnFfmpeg([p EXCEPT !.drain = FALSE, !.ffmpegDone = FALSE])
  ELSE p

stopAudio(b) == [b EXCEPT !.player = NoPlayer]

stopVideo(b) == [b EXCEPT !.videoPlayer = NoPlayer, !.player = NoPlayer]

_hasConnectedPeer(b) == b.hasConnected

\* A connected handler that releases the audio player only.
OnPeerConnectedAudioOnly(b) ==
  IF b.player.exists /\ b.player.paused /\ ~b.player.stopped
  THEN [b EXCEPT !.player = unpause(@)]
  ELSE b

_onPeerConnected(b) ==
  LET b1 == IF ~b.player.exists THEN b
            ELSE IF ~b.player.paused THEN b
            ELSE IF ~b.player.stopped THEN [b EXCEPT !.player = unpause(@)]
            ELSE b
  IN IF b1.videoPlayer.exists /\ b1.videoPlayer.paused /\ ~b1.videoPlayer.stopped
     THEN [b1 EXCEPT !.videoPlayer = unpause(@)]
     ELSE b1

\* Whether syncUnpause of playVideo releases the players.
SyncReady(b) ==
  /\ b.videoPlayer.exists /\ ~b.videoPlayer.stopped /\ VideoIsReady(b.videoPlayer)
  /\ b.player.exists /\ ~b.player.stopped /\ AudioIsReady(b.player)

syncUnpause(b) ==
  IF SyncReady(b)
  THEN [b EXCEPT !.videoPlayer = unpause(@), !.player = unpause(@)]
  ELSE b

Timer(kind, gen) == [kind |-> kind, gen |-> gen]

\* The player captured by the callbacks of playFile call g is this._player.
Captured(b, g) == b.player.exists /\ b.player.gen = g

\* onPeerJoin of playFile and the bodies of its two fallback timers act on
\* the captured player; replaced players are stopped and stay so.
UnpauseCaptured(b, g) ==
  IF Captured(b, g) /\ b.player.paused /\ ~b.player.stopped
  THEN [b EXCEPT !.player = unpause(@)]
  ELSE b

playFile(b, loop, total) ==
  LET g == b.gen + 1
      b1 == [stopAudio(b) EXCEPT !.player = StartedPlayer(g, FALSE, loop, total),
                                 !.gen = g]
  IN IF _hasConnectedPeer(b1)
     THEN [b1 EXCEPT !.player = unpause(@)]
     ELSE [b1 EXCEPT !.listeners = @ \cup {Timer("file", g)},
                     !.timers = @ \cup {Timer("file2", g), Timer("file5", g)}]

playVideo(b, loop, audioTotal, videoTotal) ==
  LET g == b.gen + 1
      b1 == [stopAudio(stopVideo(b)) EXCEPT
               !.videoPlayer = StartedPlayer(g, FALSE, loop, videoTotal),
               !.player = StartedPlayer(g, TRUE, loop, audioTotal),
               !.gen = g]
  IN IF _hasConnectedPeer(b1)
     THEN [b1 EXCEPT !.timers = @ \cup {Timer("trySync", g)}]
     ELSE [b1 EXCEPT !.listeners = @ \cup {Timer("video", g)},
                     !.timers = @ \cup {Timer("video2", g), Timer("video5", g)}]

\* emit('peerJoin'): the once-listeners run in the order they were added.
RECURSIVE RunListeners(_, _)
RunListeners(b, gens) ==
  IF gens = {} THEN b
  ELSE LET g == CHOOSE x \in gens : \A y \in gens : x <= y
           b1 == IF Timer("file", g) \in b.listeners THEN UnpauseCaptured(b, g) ELSE b
           b2 == IF Timer("video", g) \in b.listeners THEN syncUnpause(b1) ELSE b1
       IN RunListeners(b2, gens \ {g})

EmitPeerJoin(b) ==
  [RunListeners(b, {l.gen : l \in b.listeners}) EXCEPT !.listeners = {}]

\* ------------------------------------------- Part III: calls, events, timers
Play(b) == pb' = b /\ UNCHANGED <<sigVars, admVars, extVars>>

PlayFile(loop, total) ==
  /\ pb.gen < MaxPlays
  /\ Play(playFile(pb, loop, total))

PlayVideo(loop, audioTotal, videoTotal) ==
  /\ pb.gen < MaxPlays
  /\ Play(playVideo(pb, loop, audioTotal, videoTotal))

StopAudio ==
  /\ pb.player.exists
  /\ Play(stopAudio(pb))

StopVideo ==
  /\ pb.videoPlayer.exists
  /\ Play(stopVideo(pb))

AudioData(chunk) ==
  /\ pb.player.ffmpeg
  /\ pb.player.left > 0
  /\ Play([pb EXCEPT !.player = OnData(@, chunk)])

\* The audio decoder has written the whole file and exits; the players'
\* 'error' handlers of playFile and playVideo re-emit on the instance.
AudioClose ==
  /\ pb.player.ffmpeg
  /\ pb.player.left = 0
  /\ LET q == OnClose(pb.player) IN
     Play([pb EXCEPT !.player = q, !.error = @ + (q.errors - pb.player.errors)])

AudioDrain ==
  /\ pb.player.drain
  /\ Play([pb EXCEPT !.player = OnDrain(@, FRAME_BYTES)])

\* The audio pump interval; 'finish' of a playFile player is re-emitted on
\* the instance, that of playVideo's audio player is only logged.
AudioPump ==
  /\ pb.player.timer
  /\ LET q == _pump(pb.player, FRAME_BYTES) IN
     Play([pb EXCEPT !.player = q,
                     !.finish = IF q.finishes > pb.player.finishes /\ ~q.isVideo
                                THEN @ + 1 ELSE @])

VideoData(chunk) ==
  /\ pb.videoPlayer.ffmpeg
  /\ pb.videoPlayer.left > 0
  /\ Play([pb EXCEPT !.videoPlayer = OnData(@, chunk)])

VideoClose ==
  /\ pb.videoPlayer.ffmpeg
  /\ pb.videoPlayer.left = 0
  /\ Play([pb EXCEPT !.videoPlayer = OnClose(@)])

VideoDrain ==
  /\ pb.videoPlayer.drain
  /\ Play([pb EXCEPT !.videoPlayer = OnDrain(@, VideoFrameSize)])

\* The video pump interval; the 'finish' handler of playVideo emits
\* videoFinish and calls stopAudio().
VideoPump ==
  /\ pb.videoPlayer.timer
  /\ LET q == _pump(pb.videoPlayer, VideoFrameSize) IN
     IF q.finishes > pb.videoPlayer.finishes
     THEN Play(stopAudio([pb EXCEPT !.videoPlayer = q, !.videoFinish = @ + 1]))
     ELSE Play([pb EXCEPT !.videoPlayer = q])

\* A session is created (by admission or by an inbound offer).
PeerCreated ==
  /\ pb.peersSize = 0
  /\ ~pb.peerGone
  /\ Play([pb EXCEPT !.peersSize = 1])

\* onconnectionstatechange / the connected poll see 'connected' for the
\* first time: _onPeerConnected(), then emit('peerJoin').
PeerConnects ==
  /\ pb.peersSize > 0
  /\ ~pb.hasConnected
  /\ Play(EmitPeerJoin(_onPeerConnected(
            [pb EXCEPT !.hasConnected = TRUE, !.connectedSeen = TRUE])))

\* _pollForConnected gives up after MAX attempts: _onPeerConnected().
PollTimeout ==
  /\ pb.peersSize > 0
  /\ ~pb.hasConnected
  /\ Play(_onPeerConnected(pb))

\* _destroyPeerState of the session.
PeerDestroyed ==
  /\ pb.peersSize > 0
  /\ Play([pb EXCEPT !.peersSize = 0, !.hasConnected = FALSE, !.peerGone = TRUE])

\* Delay of a fallback timer, in seconds.
Delay(t) == IF t.kind \in {"file2", "video2"} THEN 2 ELSE 5

\* setTimeout order: t is due before every timer set later with a delay
\* not shorter, and after the shorter timers of its own call.
Due(t) ==
  /\ t \in pb.timers
  /\ \A u \in pb.timers :
       /\ u.kind # "trySync"
       /\ (u.gen < t.gen /\ Delay(u) <= Delay(t)) \/ (u.gen = t.gen /\ Delay(u) < Delay(t))
       => FALSE

\* t has fired; fired keeps the last fallback of each call.
Fired(b, t) ==
  [b EXCEPT !.timers = @ \ {t},
            !.fired = IF Delay(t) = 5 /\ t.kind # "trySync" THEN @ \cup {t} ELSE @]

File2Fires(g) ==
  /\ Due(Timer("file2", g))
  /\ Play(Fired(IF pb.peersSize > 0 THEN UnpauseCaptured(pb, g) ELSE pb,
                Timer("file2", g)))

File5Fires(g) ==
  /\ Due(Timer("file5", g))
  /\ Play(Fired([UnpauseCaptured(pb, g) EXCEPT !.listeners = @ \ {Timer("file", g)}],
                Timer("file5", g)))

Video2Fires(g) ==
  /\ Due(Timer("video2", g))
  /\ Play(Fired(IF pb.peersSize > 0 THEN syncUnpause(pb) ELSE pb, Timer("video2", g)))

Video5Fires(g) ==
  /\ Due(Timer("video5", g))
  /\ Play(Fired([syncUnpause(pb) EXCEPT !.listeners = @ \ {Timer("video", g)}],
                Timer("video5", g)))

\* The playback started by playVideo call g is over: its players have been
\* stopped (stopVideo, leave) or replaced (a newer playVideo), or both are
\* unpaused.
PlaybackOver(b, g) ==
  \/ ~(b.videoPlayer.exists /\ b.videoPlayer.gen = g)
  \/ /\ ~b.videoPlayer.paused
     /\ b.player.exists /\ b.player.gen = g /\ ~b.player.paused

\* trySyncUnpause: set again every 50 ms until syncUnpause succeeds.
TrySyncFires(g) ==
  /\ Timer("trySync", g) \in pb.timers
  /\ IF SyncReady(pb)
     THEN Play(Fired(syncUnpause(pb), Timer("trySync", g)))
     ELSE Play([pb EXCEPT !.fired = IF PlaybackOver(pb, g)
                                    THEN @ \cup {Timer("trySync", g)} ELSE @])

\* --------------------------------------------------- Part III: behaviours
PlayInit == SigInit /\ botId = [e \in Ends |-> <<e>>]

\* The decoder, pump and drain events of the audio player.
AudioStep ==
  \/ \E c \in AudioChunks : AudioData(c)
  \/ AudioClose
  \/ AudioDrain
  \/ AudioPump

\* The lifecycle of a peer session.
PeerStep ==
  \/ PeerCreated
  \/ PeerConnects
  \/ PollTimeout
  \/ PeerDestroyed

\* Audio playback with playFile.
NextFile ==
  \/ \E loop \in BOOLEAN : \E total \in AudioSizes : PlayFile(loop, total)
  \/ StopAudio
  \/ AudioStep
  \/ PeerStep
  \/ \E g \in 1..MaxPlays : File2Fires(g)
  \/ \E g \in 1..MaxPlays : File5Fires(g)

SpecFile == PlayInit /\ [][NextFile]_vars

\* Playback of a video file with playVideo.
NextVideo ==
  \/ \E loop \in BOOLEAN : \E a \in TrackSizes : \E v \in VideoSizes : PlayVideo(loop, a, v)
  \/ StopAudio
  \/ StopVideo
  \/ AudioStep
  \/ \E c \in VideoChunks : VideoData(c)
  \/ VideoClose
  \/ VideoDrain
  \/ VideoPump
  \/ PeerStep
  \/ \E g \in 1..MaxPlays : Video2Fires(g)
  \/ \E g \in 1..MaxPlays : Video5Fires(g)
  \/ \E g \in 1..MaxPlays : TrySyncFires(g)

SpecVideo == PlayInit /\ [][NextVideo]_vars

\* ======================================= Part IV: timed admission, actions
Timed(t) == tq' = t /\ UNCHANGED <<sigVars, admVars, playVars, tr, ap, cl, sg>>

\* this._peers.size: the sessions _offerTo has built.
TimedPeersSize(t) == Cardinality({i \in Listed : t.offered[i] # Never})

\* _getTierConfig on the instance's current counts.
TimedTier(t) ==
  _getTierConfig([keys |-> <<>>, anon |-> TimedPeersSize(t),
                  connectionQueue |-> t.queue])

\* The while loop of _processConnectionQueue with the clock: a dispatch
\* takes a slot, builds the session (_offerTo) and sets the 3000 ms slot
\* timer; the loop then sleeps staggerPerPeer if peers still wait; when it
\* is left with peers waiting, a timer of staggerBase retries.
RECURSIVE TimedPumpLoop(_, _)
TimedPumpLoop(t, tier) ==
  IF t.queue # <<>> /\ t.activeNegotiations < tier.concurrent
  THEN LET remoteId == Head(t.queue)
           t1 == [t EXCEPT !.queue = Tail(@),
                           !.activeNegotiations = @ + 1,
                           !.offered[remoteId] = t.now,
                           !.slotTimers = @ (+) SetToBag({t.now + Ms(3000)})]
       IN IF t1.queue # <<>>
          THEN [t1 EXCEPT !.sleep = [at |-> t.now + Ms(tier.staggerPerPeer),
                                     tier |-> tier]]
          ELSE TimedPumpLoop(t1, tier)
  ELSE [t EXCEPT !.isConnecting = FALSE,
                 !.pumpTimers = IF t.queue # <<>>
                                THEN @ (+) SetToBag({t.now + Ms(tier.staggerBase)})
                                ELSE @]

TimedProcessQueue(t) ==
  IF t.isConnecting THEN t
  ELSE TimedPumpLoop([t EXCEPT !.isConnecting = TRUE], TimedTier(t))

\* _queueConnection for a listed peer: it has no session, no cooldown entry
\* and is not queued, and the instance is far from its capacity.
TimedQueueConnection(t, i) ==
  TimedProcessQueue([t EXCEPT !.queue = Append(@, i)])

\* Some timer is due now.
TimerDue(t) ==
  \/ \E i \in Listed : t.peerTimers[i] = t.now
  \/ t.sleep.at = t.now
  \/ BagIn(t.now, t.pumpTimers)
  \/ BagIn(t.now, t.slotTimers)

\* _onParticipants for a list of Listed peers at a fresh instance: the tier
\* is small, no batches; Math.random() * 200 is 0 or 100 ms.
ListArrives(jitter) ==
  /\ ~tq.arrived
  /\ LET tier == TimedTier(tq) IN
     Timed([tq EXCEPT !.arrived = TRUE,
                      !.peerTimers = [i \in Listed |->
                         tq.now + Ms(tier.staggerBase) + i * Ms(tier.staggerPerPeer)
                           + jitter[i]]])

\* 100 ms pass; every timer that is due has fired.
Tick ==
  /\ tq.arrived
  /\ tq.now < MaxTime
  /\ ~TimerDue(tq)
  /\ Timed([tq EXCEPT !.now = @ + 1])

\* The timer of peer i fires: _queueConnection(pid).
PeerTimerFires(i) ==
  /\ tq.peerTimers[i] = tq.now
  /\ Timed(TimedQueueConnection([tq EXCEPT !.peerTimers[i] = Never], i))

\* The stagger sleep of the pump ends.
TimedPumpWake ==
  /\ tq.sleep.at = tq.now
  /\ Timed(TimedPumpLoop([tq EXCEPT !.sleep.at = Never], tq.sleep.tier))

\* The retry timer of _processConnectionQueue fires.
TimedPumpTimerFires ==
  /\ BagIn(tq.now, tq.pumpTimers)
  /\ Timed(TimedProcessQueue([tq EXCEPT !.pumpTimers = @ (-) SetToBag({tq.now})]))

\* The 3000 ms timer of _offerTo fires: the slot is released.
TimedSlotTimerFires ==
  /\ BagIn(tq.now, tq.slotTimers)
  /\ Timed(TimedProcessQueue(
       [tq EXCEPT !.slotTimers = @ (-) SetToBag({tq.now}),
                  !.activeNegotiations = Max0(@ - 1)]))

NextTimed ==
  \/ \E jitter \in [Listed -> {0, 1}] : ListArrives(jitter)
  \/ Tick
  \/ \E i \in Listed : PeerTimerFires(i)
  \/ TimedPumpWake
  \/ TimedPumpTimerFires
  \/ TimedSlotTimerFires

SpecTimed == AdmInit /\ [][NextTimed]_vars

\* ============================================ Part V: video track, actions
Track(t) == tr' = t /\ UNCHANGED <<sigVars, admVars, playVars, tq, ap, cl, sg>>

VideoEvent(type) == IF type = "screen" THEN "voice:screen-share" ELSE "voice:video"

\* this._socket.emit of the video state, when the socket is connected.
EmitVideoState(t, type, enabled) ==
  IF ~t.socket THEN t
  ELSE LET all == Append(t.sent, [event |-> VideoEvent(type), enabled |-> enabled])
       IN [t EXCEPT !.sent = IF Len(all) > 2 THEN Tail(all) ELSE all]

\* RTCPeerConnection.addTrack: a track that already has a sender on the
\* connection is refused with InvalidAccessError, any other track gets a
\* sender of its own (no sender of the connection has a null track).
addTrack(pc, track) ==
  IF \E i \in DOMAIN pc.senders : pc.senders[i] = track THEN pc
  ELSE [pc EXCEPT !.senders = Append(@, track)]

_addVideoTrackToPeers(t) ==
  IF t.videoTrack = 0 THEN t
  ELSE IF t.pc.state = "connected"
  THEN [t EXCEPT !.pc = addTrack(@, t.videoTrack)]
  ELSE t

\* stopVideo with the video track and the announcement.
stopVideoTrack(t) ==
  LET videoType == t.videoType
      t1 == [t EXCEPT !.running = {}, !.videoPlayer = 0, !.player = 0,
                      !.videoTrack = 0, !.videoType = "none"]
  IN IF videoType # "none" THEN EmitVideoState(t1, videoType, FALSE) ELSE t1

\* playVideo up to and including its call of _addVideoTrackToPeers.
playVideoTrack(t, type) ==
  LET g == t.calls + 1
      t1 == [stopVideoTrack(t) EXCEPT
               !.calls = g, !.videoTrack = g, !.videoType = type,
               !.videoPlayer = g, !.player = g,
               !.running = {<<"video", g>>, <<"audio", g>>}]
  IN _addVideoTrackToPeers(EmitVideoState(t1, type, TRUE))

\* The 'finish' handler playVideo puts on the video player: stopAudio and
\* the announcement, with the type of the call that made the player.
OnVideoFinish(t) ==
  EmitVideoState([t EXCEPT !.running = {}, !.player = 0], t.videoType, FALSE)

\* The video half of _onPeerConnected.
OnPeerConnectedVideo(t) ==
  IF t.videoPlayer # 0 /\ t.videoTrack # 0 THEN _addVideoTrackToPeers(t) ELSE t

\* leave: stopVideo, _clearAllPeers, voice:leave.
leaveTrack(t) == [stopVideoTrack(t) EXCEPT !.pc = NoPc, !.joined = FALSE]

TrackPlayVideo(type) ==
  /\ tr.joined /\ tr.calls < MaxPlays
  /\ Track(playVideoTrack(tr, type))

\* syncUnpause finds both players ready.
TrackSyncUnpause ==
  /\ tr.joined
  /\ <<"video", tr.videoPlayer>> \in tr.running
  /\ <<"audio", tr.player>> \in tr.running
  /\ Track(_addVideoTrackToPeers(tr))

TrackVideoFinish ==
  /\ tr.joined
  /\ <<"video", tr.videoPlayer>> \in tr.running
  /\ Track(OnVideoFinish(tr))

TrackStopVideo == tr.joined /\ Track(stopVideoTrack(tr))

TrackLeave == tr.joined /\ Track(leaveTrack(tr))

TrackPeerCreated ==
  /\ tr.joined /\ tr.pc.state = "none"
  /\ Track([tr EXCEPT !.pc = [state |-> "new", senders |-> <<>>]])

TrackPeerConnected ==
  /\ tr.joined /\ tr.pc.state = "new"
  /\ Track(OnPeerConnectedVideo([tr EXCEPT !.pc.state = "connected"]))

TrackPeerDestroyed ==
  /\ tr.joined /\ tr.pc.state # "none"
  /\ Track([tr EXCEPT !.pc = NoPc])

TrackSocket ==
  /\ tr.joined
  /\ Track([tr EXCEPT !.socket = ~@])

NextTrack ==
  \/ \E type \in VideoTypes : TrackPlayVideo(type)
  \/ TrackSyncUnpause
  \/ TrackVideoFinish
  \/ TrackStopVideo
  \/ TrackLeave
  \/ TrackPeerCreated
  \/ TrackPeerConnected
  \/ TrackPeerDestroyed
  \/ TrackSocket

SpecTrack == AdmInit /\ [][NextTrack]_vars

\* ================================================ Part VI: decoder, actions
Decoder(a) == ap' = a /\ UNCHANGED <<sigVars, admVars, playVars, tq, tr, cl, sg>>

\* Sizes of the chunks a decoder writes: half a frame, two frames.
DecoderChunks == {FRAME_BYTES \div 2, 2 * FRAME_BYTES}

\* AudioPlayer._spawnFfmpeg for a file that exists.
SpawnDecoder(a) ==
  IF a.stopped THEN a
  ELSE [a EXCEPT !.ffmpegDone = FALSE, !.received = FALSE, !.ffmpeg = TRUE,
                 !.procs = Append(@, [killed |-> FALSE]), !.spawns = @ + 1]

\* AudioPlayer.start
StartPlayer(a, loop) ==
  SpawnDecoder([a EXCEPT !.started = TRUE, !.loop = loop, !.stopped = FALSE,
                         !.paused = TRUE, !.ffmpegDone = FALSE])

\* AudioPlayer.unpause
UnpausePlayer(a) ==
  IF ~a.paused THEN a
  ELSE [a EXCEPT !.paused = FALSE, !.timer = @ \/ ~a.stopped]

\* AudioPlayer.stop: this._ffmpeg, the process spawned last, is killed.
StopPlayer(a) ==
  [a EXCEPT !.stopped = TRUE,
            !.procs = IF a.ffmpeg
                      THEN [i \in DOMAIN @ |-> IF i = Len(@) THEN [killed |-> TRUE] ELSE @[i]]
                      ELSE @,
            !.ffmpeg = FALSE, !.timer = FALSE, !.buf = 0]

\* stdout 'data' handler.
DecoderData(a, chunk) ==
  [a EXCEPT !.buf = @ + chunk, !.received = TRUE]

\* A drain that respawns the decoder on its first tick, whatever is buffered.
DrainAtOnce(a) ==
  IF a.stopped THEN [a EXCEPT !.drains = @ - 1]
  ELSE SpawnDecoder([a EXCEPT !.drains = @ - 1, !.ffmpegDone = FALSE])

\* A drain and a respawn that do not test _stopped.
DrainIgnoresStop(a) ==
  IF a.buf < FRAME_BYTES
  THEN [a EXCEPT !.drains = @ - 1, !.ffmpegDone = FALSE, !.received = FALSE,
                 !.ffmpeg = TRUE, !.procs = Append(@, [killed |-> FALSE]),
                 !.spawns = @ + 1]
  ELSE a

\* One tick of a drain interval of the close handler.
DrainTick(a) ==
  IF a.stopped THEN [a EXCEPT !.drains = @ - 1]
  ELSE IF a.buf < FRAME_BYTES
  THEN SpawnDecoder([a EXCEPT !.drains = @ - 1, !.ffmpegDone = FALSE])
  ELSE a

\* 'close' handler of process i.
DecoderClosed(a, i) ==
  LET kept == [j \in 1..(Len(a.procs) - 1) |->
                 IF j < i THEN a.procs[j] ELSE a.procs[j + 1]]
      a2 == [a EXCEPT !.procs = kept, !.ffmpeg = FALSE, !.ffmpegDone = TRUE]
  IN IF ~a.received
     THEN [a2 EXCEPT !.errors = @ + 1, !.emptyExits = @ + 1]
     ELSE IF ~a.stopped /\ a.loop THEN [a2 EXCEPT !.drains = @ + 1]
     ELSE a2

\* AudioPlayer._pump
PumpTick(a) ==
  IF a.stopped \/ a.paused THEN a
  ELSE IF a.buf >= FRAME_BYTES THEN [a EXCEPT !.buf = @ - FRAME_BYTES]
  ELSE IF a.buf > 0 THEN [a EXCEPT !.buf = FRAME_BYTES]
  ELSE IF a.ffmpegDone /\ ~a.loop /\ ~a.stopped
  THEN [StopPlayer(a) EXCEPT !.finishes = @ + 1]
  ELSE a

PlayerStart(loop) ==
  /\ ~ap.started
  /\ Decoder(StartPlayer(ap, loop))

PlayerUnpause ==
  /\ ap.started /\ ap.paused
  /\ Decoder(UnpausePlayer(ap))

PlayerStop ==
  /\ ap.started /\ ~ap.stopped
  /\ Decoder(StopPlayer(ap))

\* Process i writes a chunk; what a killed process had written before it was
\* killed is still delivered.
ProcessWrites(i, chunk) ==
  /\ i \in DOMAIN ap.procs
  /\ ap.buf + chunk <= MaxBufFrames * FRAME_BYTES
  /\ Decoder(DecoderData(ap, chunk))

ProcessCloses(i) ==
  /\ i \in DOMAIN ap.procs
  /\ Decoder(DecoderClosed(ap, i))

PlayerDrain ==
  /\ ap.drains > 0
  /\ ap.stopped \/ ap.buf >= FRAME_BYTES \/ ap.spawns < MaxSpawns
  /\ Decoder(DrainTick(ap))

PlayerPump ==
  /\ ap.timer
  /\ Decoder(PumpTick(ap))

NextDecoder ==
  \/ \E loop \in BOOLEAN : PlayerStart(loop)
  \/ PlayerUnpause
  \/ PlayerStop
  \/ \E i \in 1..MaxSpawns : \E chunk \in DecoderChunks : ProcessWrites(i, chunk)
  \/ \E i \in 1..MaxSpawns : ProcessCloses(i)
  \/ PlayerDrain
  \/ PlayerPump

SpecDecoder == AdmInit /\ [][NextDecoder]_vars

\* ================================================ Part VII: Client, actions
ClientStep(c) == cl' = c /\ UNCHANGED <<sigVars, admVars, playVars, tq, tr, ap, sg>>

\* The body of Client.leaveVoice: it has no await, so it runs to its end
\* within the call.
leaveVoice(c) ==
  IF c.registered # 0
  THEN [c EXCEPT !.conn[c.registered] = "left", !.registered = 0]
  ELSE c

\* Client.joinVoice up to its `await this.leaveVoice(serverId)`.
joinVoiceCalled(c, k) ==
  [leaveVoice(c) EXCEPT !.at[k] = "awaitLeave", !.micro = Append(@, k)]

\* Client.joinVoice from its first await to `await vc.join()`; join() sets
\* the heartbeat, registers the listeners and resolves within the call.
joinVoiceResumed(c, k) ==
  [c EXCEPT !.registered = k, !.conn[k] = "joined", !.at[k] = "awaitJoin",
            !.micro = Append(Tail(@), k)]

\* Client.joinVoice returns vc.
joinVoiceReturned(c, k) ==
  [c EXCEPT !.at[k] = "done", !.micro = Tail(@)]

\* The program calls joinVoice for the server (the calls are numbered in the
\* order they are made).
CallJoinVoice(k) ==
  /\ cl.at[k] = "idle"
  /\ \A j \in JoinCalls : j < k => cl.at[j] # "idle"
  /\ ClientStep(joinVoiceCalled(cl, k))

\* The program calls leaveVoice for the server.
CallLeaveVoice ==
  /\ cl.leaves < MaxJoinCalls
  /\ ClientStep([leaveVoice(cl) EXCEPT !.leaves = @ + 1])

\* The await the oldest suspended call is in resumes.
Resume ==
  /\ cl.micro # <<>>
  /\ LET k == Head(cl.micro) IN
     IF cl.at[k] = "awaitLeave"
     THEN ClientStep(joinVoiceResumed(cl, k))
     ELSE ClientStep(joinVoiceReturned(cl, k))

NextClient ==
  \/ \E k \in JoinCalls : CallJoinVoice(k)
  \/ CallLeaveVoice
  \/ Resume

SpecClient == AdmInit /\ [][NextClient]_vars

\* ============================================= Part VIII: sessions, actions
Session(s) == sg' = s /\ UNCHANGED <<sigVars, admVars, playVars, tq, tr, ap, cl>>

\* pc.close() of connection i.
ClosePc(s, i) ==
  IF s.pcs[i].state = "closed" THEN s
  ELSE [s EXCEPT !.pcs[i].state = "closed",
                 !.pcs[i].pending = IF s.closeFires THEN Min(@ + 1, MaxPending) ELSE @]

\* _buildPeerConnection: the next connection, owned by the session.
BuildPc(s) ==
  [s EXCEPT !.built = @ + 1, !.pc = s.built + 1, !.pcs[s.built + 1].state = "new"]

\* _getOrCreatePeerState
GetOrCreate(s) ==
  IF ~s.session THEN BuildPc([s EXCEPT !.session = TRUE])
  ELSE IF s.pcs[s.pc].state \in {"closed", "failed"} THEN BuildPc(ClosePc(s, s.pc))
  ELSE s

\* _destroyPeerState
DestroySession(s) ==
  IF ~s.session THEN s
  ELSE [ClosePc(s, s.pc) EXCEPT !.session = FALSE, !.pc = 0]

\* pc.onconnectionstatechange of connection i: 'failed' and 'closed'.
OnConnectionStateChange(s, i) ==
  IF s.pcs[i].state \in {"failed", "closed"} THEN DestroySession(s) ELSE s

\* The states a connection can go to by itself.
NextConnectionStates(state) ==
  IF state = "new" THEN {"connecting"}
  ELSE IF state = "connecting" THEN {"connected", "failed"}
  ELSE IF state = "connected" THEN {"failed"}
  ELSE {}

\* _offerTo, _onOffer or _onIceCandidate reaches _getOrCreatePeerState.
SessionWanted ==
  /\ IF sg.session THEN sg.pcs[sg.pc].state \in {"closed", "failed"} ELSE TRUE
  /\ sg.built < MaxPcs
  /\ Session(GetOrCreate(sg))

\* _onUserLeft, or the destroy of _onForceReconnect.
SessionDestroyed ==
  /\ sg.session
  /\ Session(DestroySession(sg))

\* The WebRTC stack changes the state of connection i and queues the event.
PcStateChanges(i, state) ==
  /\ state \in NextConnectionStates(sg.pcs[i].state)
  /\ Session([sg EXCEPT !.pcs[i].state = state,
                        !.pcs[i].pending = Min(@ + 1, MaxPending)])

\* A queued connectionstatechange event of connection i is dispatched.
PcEventDispatched(i) ==
  /\ sg.pcs[i].pending > 0
  /\ Session(OnConnectionStateChange([sg EXCEPT !.pcs[i].pending = @ - 1], i))

\* The instance with either kind of WebRTC build.
SessionInit ==
  /\ botId = [e \in Ends |-> <<e>>]
  /\ ps = [e \in Ends |-> NoPeer]
  /\ chain = [e \in Ends |-> <<>>]
  /\ net = [e \in Ends |-> <<>>]
  /\ polls = [e \in Ends |-> EmptyBag]
  /\ applied = [e \in Ends |-> <<>>]
  /\ ctr = [e \in Ends |-> InitCtr]
  /\ vc = VcInit
  /\ pb = PbInit
  /\ tq = TqInit /\ tr = TrInit /\ ap = ApInit /\ cl = ClInit
  /\ sg \in {SgInit(f) : f \in BOOLEAN}

NextSession ==
  \/ SessionWanted
  \/ SessionDestroyed
  \/ \E i \in Pcs : \E state \in {"connecting", "connected", "failed"} : PcStateChanges(i, state)
  \/ \E i \in Pcs : PcEventDispatched(i)

SpecSession == SessionInit /\ [][NextSession]_vars

\* ---------------------------------------------------------- claims C1..C6
\* Frames of a createOffer -> setLocalDescription sequence in flight.
OffersInFlight(e) ==
  {i \in DOMAIN chain[e] : chain[e][i].by \in {"neg", "restart"}}

\* C1: for every peer, pc.addIceCandidate is called in the order in which the
\* peer's candidates were received by _onIceCandidate (candidates are
\* numbered in the order they are sent and the channel is FIFO, so the calls
\* must be in increasing order), also for a candidate that arrives while
\* _flushCandidates is awaiting.
C1_CandidatesAppliedInOrder ==
  \A e \in Ends : \A i, j \in DOMAIN applied[e] :
    i < j => applied[e][i] < applied[e][j]

\* C2: for every PeerState at most one createOffer -> setLocalDescription
\* sequence (of onnegotiationneeded or of _restartIce) is in flight.
C2_OneOfferInFlight ==
  \A e \in Ends : Cardinality(OffersInFlight(e)) <= 1

\* Both endpoints hold a local offer to each other, both offers have been
\* delivered and handled, and nothing is in flight any more.
GlareUnresolved ==
  /\ \A e \in Ends : ps[e].exists /\ ps[e].signalingState = "have-local-offer"
  /\ \A e \in Ends : chain[e] = <<>> /\ net[e] = <<>>

\* C3: in a glare exactly one endpoint, the one with the smaller ID, rolls
\* back and answers and the other ignores the offer: the impolite endpoint
\* never rolls back, the polite one never ignores, the glare never stays with
\* neither endpoint rolling back, and polite = (local ID < remote ID).
C3_GlareExactlyOneRollsBack ==
  /\ \A e \in Ends : ps[e].exists => (ps[e].polite <=> StrLess(botId[e], botId[Other(e)]))
  /\ \A e \in Ends : StrLess(botId[Other(e)], botId[e]) => ctr[e].rollbacks = 0
  /\ \A e \in Ends : StrLess(botId[e], botId[Other(e)]) => ctr[e].ignored = 0
  /\ ~GlareUnresolved

\* C4: a colliding offer received by the polite endpoint always ends in a
\* rollback, the remote offer applied and one voice:answer, and never in an
\* 'error' event: no 'error' is emitted, and once the handlers have run to
\* their end every collision was rolled back.
C4_PoliteCollisionAnswers ==
  \A e \in Ends :
    /\ ctr[e].errors = 0
    /\ chain[e] = <<>> => ctr[e].rollbacks = ctr[e].collisions

\* C5: a negotiationneeded that was skipped (makingOffer, or signalling state
\* not stable) is made up for: when the offer/answer exchange completes and
\* the signalling state returns to stable, a new offer routine is started.
C5_SkippedNegotiationReissued ==
  [][\A e \in Ends :
       ( /\ ctr[e].negSkipped
         /\ ps[e].signalingState # "stable"
         /\ ps'[e].signalingState = "stable"
         /\ Head(chain[e]).op \in {"setRemoteAnswer", "setLocalAnswer"} )
       => OffersInFlight(e)' # {}]_vars

\* C6: for every PeerState the connected announcement (_onPeerConnected from
\* the state handler, a poll or the poll time-out) is made at most once.
C6_ConnectedAnnouncedOnce ==
  \A e \in Ends : ps[e].connectedCalls <= 1


\* Admission while peers outside PeerIds open sessions by their offers.
NextCap ==
  \/ Join
  \/ AnonSignal
  \/ AnonLeft
  \/ \E l \in PeerLists : OnParticipants(l)
  \/ \E p \in PeerIds : OnUserJoined(p)
  \/ \E p \in PeerIds : QueueTimerFires(p)
  \/ \E t \in Tiers : PumpWake(t)
  \/ PumpTimerFires
  \/ SlotTimerFires
  \/ \E p \in PeerIds : CooldownElapsed(p)
  \/ \E p \in PeerIds : \E b \in BOOLEAN : setPeerPriority(p, b)

SpecCap == AdmInit /\ [][NextCap]_vars

\* --------------------------------------------------------- claims C7..C10
\* C7: once leave() has returned and until join() is called again, whatever
\* timers were pending, the instance is as constructed: it has no session
\* (no RTCPeerConnection was created), nothing is queued, no slot is held,
\* no pump runs, and no voice:offer has been emitted.
C7_LeftInstanceStaysInitial ==
  ~vc.joined =>
    /\ vc.keys = <<>>
    /\ vc.connectionQueue = <<>>
    /\ vc.activeNegotiations = 0
    /\ ~vc.isConnecting
    /\ ~vc.offerAfterLeave

\* Sessions whose peer is not in the priority set.
NonPriorityCount ==
  Cardinality({i \in DOMAIN vc.keys : vc.keys[i] \notin vc.priorityPeers}) + vc.anon

\* C8: in every state at most _maxConnectedPeers sessions belong to peers
\* outside the priority set, whatever created them.
C8_NonPriorityWithinHardCap == NonPriorityCount <= MaxConnectedPeers

\* C9: every peer ID occurs at most once in the admission queue.
C9_QueueHasNoDuplicates ==
  \A i, j \in DOMAIN vc.connectionQueue :
    i # j => vc.connectionQueue[i] # vc.connectionQueue[j]

\* C9 witness: a request for an ID that was already queued has been turned
\* down, and the queue holds that ID.
C9_DuplicateRequestSeen == vc.dupQueued /\ vc.connectionQueue # <<>>

\* C10: the slots held never exceed the concurrent limit of the tier that
\* _getTierConfig selects in the same state.
C10_SlotsWithinCurrentTier ==
  vc.activeNegotiations <= _getTierConfig(vc).concurrent

\* -------------------------------------------------------- claims C11..C14
\* Both players of one playVideo call are present and neither is stopped.
VideoPlaybackActive ==
  /\ pb.player.exists /\ pb.player.isVideo /\ ~pb.player.stopped
  /\ pb.videoPlayer.exists /\ ~pb.videoPlayer.stopped
  /\ pb.player.gen = pb.videoPlayer.gen

\* C11: while a playVideo playback is active (neither player stopped), its
\* audio player and its video player are released together: in no state is
\* one of them unpaused while the other is still paused, whichever of
\* syncUnpause, _onPeerConnected, the poll time-out or the fallback timers
\* released them.
C11_PlayersReleasedTogether ==
  VideoPlaybackActive => (pb.player.paused = pb.videoPlayer.paused)

\* An active playVideo playback whose two players have been released.
C11_BothReleased ==
  VideoPlaybackActive /\ ~pb.player.paused /\ ~pb.videoPlayer.paused

\* C12: after playFile(), no audio frame is pushed by the player until at
\* least one peer connection has reached 'connected'.
C12_NoFrameBeforeConnected ==
  (pb.player.exists /\ ~pb.player.isVideo /\ pb.player.framesSent > 0)
    => pb.connectedSeen

\* C13: a non-looping player emits 'finish' only in a tick of its pump that
\* finds the decoder closed and the buffer empty, and at most once.
C13_FinishAfterDrainOnce ==
  [][pb'.player.finishes > pb.player.finishes
       => /\ pb.player.ffmpegDone
          /\ pb.player.buf = 0
          /\ ~pb.player.loop
          /\ pb.player.finishes = 0
          /\ pb'.player.finishes = 1
          /\ pb'.finish = pb.finish + 1]_vars

\* A file with audio has been played to its end.
C13_Finished ==
  /\ pb.player.exists /\ pb.player.total > 0
  /\ pb.player.finishes = 1 /\ pb.finish > 0

\* C14: a playback that is not stopped is unpaused at the latest by the last
\* fallback of the call that started it, peers or no peers: once the 5 s
\* timer of the call has fired and the decoders have closed, no player of
\* that call is present, not stopped and still paused.
C14_FallbackReleases ==
  \A g \in 1..MaxPlays :
    ((Timer("file5", g) \in pb.fired \/ Timer("video5", g) \in pb.fired)
       /\ pb.gen = g)
    => /\ (pb.player.exists /\ pb.player.gen = g /\ ~pb.player.stopped
             /\ pb.player.ffmpegDone)
          => ~pb.player.paused
       /\ (pb.videoPlayer.exists /\ pb.videoPlayer.gen = g /\ ~pb.videoPlayer.stopped
             /\ pb.videoPlayer.ffmpegDone)
          => ~pb.videoPlayer.paused

\* ------------------------------------------------------------- claim C15
Range(q) == {q[i] : i \in DOMAIN q}

\* Candidates waiting in ps.pendingCandidates.
Buffered(e) == Range(ps[e].pendingCandidates)

\* Candidates a suspended _flushCandidates still holds in its local array.
InFlush(e) ==
  UNION {Range(chain[e][i].rest) :
           i \in {j \in DOMAIN chain[e] : chain[e][j].op = "addIceCandidate"}}

\* Candidates handed to pc.addIceCandidate.
Applied(e) == Range(applied[e])

\* C15: no candidate is passed to addIceCandidate before the remote
\* description of the session's connection has been set; and (sessions not
\* destroyed or rebuilt) every candidate buffered in pendingCandidates is
\* taken by the flush at the moment setRemoteDescription next succeeds, is
\* never dropped from then on and is applied exactly once.
C15_BufferedAppliedOnce ==
  [][\A e \in Ends :
       /\ applied'[e] # applied[e] => ps'[e].remoteDescSet
       /\ ps'[e].remoteDescSet => ps'[e].pendingCandidates = <<>>
       /\ (Buffered(e) \cup InFlush(e)) \subseteq
            (Buffered(e)' \cup InFlush(e)' \cup Applied(e)')
       /\ Cardinality(Applied(e)') = Len(applied'[e])
       /\ Buffered(e)' \cap InFlush(e)' = {}
       /\ (Buffered(e)' \cup InFlush(e)') \cap Applied(e)' = {}]_vars

\* A flush of two or more buffered candidates is under way.
C15_FlushUnderWay ==
  \E e \in Ends :
    /\ applied[e] # <<>>
    /\ InFlush(e) # {}
    /\ ps[e].remoteDescSet

\* ------------------------------------------------------------- claim C16
\* C16: an ice-candidate from X arrives while no session for X exists, and
\* an offer from X arrives afterwards.  Whichever polite role the local
\* endpoint has, and although the session created for the candidate starts
\* an offer of its own: the candidate is buffered and stays so until it is
\* applied, and it is applied only once the remote description is set; the
\* offer is accepted (not ignored); no 'error' event is emitted.
C16_EarlyCandidateThenOffer ==
  /\ ctr[1].errors = 0
  /\ ctr[1].ignored = 0
  /\ ~HeadMsgIs(1, "candidate") => 1 \in (Buffered(1) \cup InFlush(1) \cup Applied(1))
  /\ 1 \in Applied(1) => ps[1].remoteDescSet

\* ------------------------------------------------------------- claim C17
\* The peer waits in the admission queue or has a newly built session.
Requeued(v, p) ==
  InQueue(v, p) \/ v.peers[p] = FreshSession

\* C17: a force-reconnect for this channel that targets the local ID
\* (respectively a peer P) destroys every existing session (respectively
\* P's) and puts its peer into the admission queue again (from where it may
\* be dispatched at once), also when the peer was dispatched less than the
\* tier cooldown ago; sessions of peers that are not targeted, and are not
\* waiting in the queue, are left as they are.
C17_ForceReconnectRequeues ==
  [][\A p \in PeerIds :
       /\ (vc.peers[p].exists /\ OnForceReconnect([kind |-> "botId", id |-> 0]))
            => Requeued(vc', p)
       /\ (vc.peers[p].exists /\ OnForceReconnect([kind |-> "peer", id |-> p]))
            => /\ Requeued(vc', p)
               /\ \A q \in PeerIds \ {p} :
                    (vc.peers[q].exists /\ ~InQueue(vc, q))
                      => vc'.peers[q] = vc.peers[q]]_vars

\* ------------------------------------------------------------- claim C18
\* C18: an inbound voice event of any type that bears the channelId of
\* another channel leaves the peer map, the admission queue and the state of
\* every session unchanged and sets nothing in motion that would send a
\* message (no timer, no pump, no slot).
C18_ForeignChannelDropped ==
  [][\A type \in EventTypes : \A p \in PeerIds :
       ForeignEvent(type, p)
         => [vc' EXCEPT !.events = 0] = [vc EXCEPT !.events = 0]]_vars

\* ------------------------------------------------------------- claim C19
\* Positions of the queue whose peer is still queued after the step.
Staying == {i \in DOMAIN vc.connectionQueue : InQueue(vc', vc.connectionQueue[i])}

\* C19: peers leave the admission queue (dispatched, skipped or dropped by
\* leave()) in the order in which they were enqueued: in every step the
\* peers that leave are the first ones of the queue, and those that stay
\* keep their order ahead of every peer the step enqueues.
C19_QueueIsFifo ==
  [][LET q == vc.connectionQueue
         k == Len(q) - Cardinality(Staying)
     IN /\ \A i \in Staying : \A j \in DOMAIN q : j > i => j \in Staying
        /\ \A i \in Staying : vc'.connectionQueue[i - k] = q[i]]_vars

\* A peer has been dispatched while a peer queued after it still waits.
C19_DispatchedAheadOfWaiting ==
  \E p \in PeerIds : \E q \in PeerIds :
    /\ p # q
    /\ vc.connectionCooldowns[p] = "hot"
    /\ vc.peers[p].exists
    /\ InQueue(vc, q)

\* ------------------------------------------------------------- claim C20
\* C20: a participants list of 60 peers arriving at a connection that has no
\* session and an empty queue is processed with the massive tier: 3 batches
\* of 20 peers, released after 0 s, 5 s and 10 s, the per-peer stagger of
\* each batch starting at staggerBase = 2500 ms.
C20_SixtyPeersMassiveTier ==
  [][(PeersSize(vc) = 0 /\ vc.connectionQueue = <<>> /\ vc.batchTimers = <<>>
        /\ OnParticipantsMany(60))
       => /\ Len(vc'.batchTimers) = 3
          /\ \A i \in 1..3 :
               /\ vc'.batchTimers[i].size = 20
               /\ vc'.batchTimers[i].delay = (i - 1) * 5000
               /\ vc'.batchTimers[i].staggerBase = TierConfig.massive.staggerBase]_vars

\* ------------------------------------------------------------- claim C21
\* Index of the last peer of the list.
LastListed == TierConfig.small.maxPeers - 1

\* C21: after a participants list of 10 peers arrived at a fresh
\* connection the tier stays small, and the offer to the last peer is
\* initiated no later than staggerBase + 9 * staggerPerPeer + 200 ms after
\* the arrival, the concurrency limit and the 3 s slots notwithstanding.
C21_LastPeerOfferedInTime ==
  tq.arrived =>
    /\ TimedTier(tq) = TierConfig.small
    /\ tq.now > Ms(TierConfig.small.staggerBase
                     + LastListed * TierConfig.small.staggerPerPeer + 200)
         => tq.offered[LastListed] # Never

\* ------------------------------------------------------------- claim C22
\* C22: once playVideo has been called twice, the only players still running
\* are those of the second call, and the peer's connection carries at most
\* one video sender and no track twice.
C22_OneVideoSender ==
  tr.calls = 2 =>
    /\ tr.running \subseteq {<<"video", 2>>, <<"audio", 2>>}
    /\ Len(tr.pc.senders) <= 1
    /\ \A i, j \in DOMAIN tr.pc.senders : tr.pc.senders[i] = tr.pc.senders[j] => i = j

\* ------------------------------------------------------------- claim C23
\* C23: the video state is announced only when it differs from the last one
\* sent: no two consecutive announcements carry the same event name and the
\* same enabled flag.
C23_NoRepeatedAnnouncement ==
  Len(tr.sent) = 2 => tr.sent[1] # tr.sent[2]

\* ------------------------------------------------------------- claim C24
\* C24: a failure that concerns one peer only (an exception while its offer,
\* its answer or its candidates are handled) never becomes an 'error' event
\* of the VoiceConnection: neither endpoint emits 'error' during signalling.
C24_PeerFailureNotSurfaced ==
  \A e \in Ends : ctr[e].errors = 0

\* ------------------------------------------------------------- claim C25
\* C25: when the construction of a peer's RTCPeerConnection throws, no entry
\* for the peer is left in the peer map (the map never holds a session
\* without a connection), and the negotiation slot taken for the attempt is
\* released (every slot held has its release timer pending).
C25_FailedBuildLeavesNothing ==
  /\ \A p \in PeerIds : ~(vc.peers[p].exists /\ vc.peers[p].connectionState = "none")
  /\ vc.activeNegotiations <= vc.slotTimers

HardCapFrames == 3

\* C27: the buffer of a player never holds more than the hard cap of whole
\* frames, whether the player is paused or pumping.
C27_BufferWithinHardCap ==
  ap.buf <= HardCapFrames * FRAME_BYTES

\* ------------------------------------------------------------- claim C28
\* C28: a looping player never emits 'finish' and never has more than one
\* decoder process; the close of a decoder that produced output, the player
\* not being stopped, sets up the respawn; a decoder is respawned only by a
\* drain tick that finds less than one frame buffered, and never once the
\* player is stopped.
C28_LoopRespawnsWhenDrained ==
  [][ap'.loop =>
       /\ ap'.finishes = 0
       /\ Len(ap'.procs) <= 1
       /\ (Len(ap'.procs) < Len(ap.procs) /\ ap.received /\ ~ap.stopped)
            => ap'.drains = ap.drains + 1
       /\ (ap.started /\ ap'.spawns > ap.spawns)
            => (ap.drains > 0 /\ ap.buf < FRAME_BYTES /\ ~ap.stopped)
       /\ ap.stopped => ap'.spawns = ap.spawns]_vars

C28_Respawned ==
  ap.loop /\ ap.spawns >= 2 /\ ~ap.stopped /\ ap.received

\* ------------------------------------------------------------- claim C29
\* C29: every VoiceConnection that has joined and has not been left is the
\* one registered for the server, so at most one is live, also when calls of
\* joinVoice overlap.
C29_OneLiveConnection ==
  \A k \in JoinCalls : cl.conn[k] = "joined" => cl.registered = k

\* ------------------------------------------------------------- claim C30
\* C30: the dispatch of a connection-state event removes the peer's session
\* from the map only if the event is of the connection the session owns.
C30_StaleEventKeepsSession ==
  [][\A i \in Pcs :
       (PcEventDispatched(i) /\ sg.session /\ ~sg'.session) => sg.pc = i]_vars

\* ------------------------------------------------------------- claim C31
\* C31: a peer whose voice:user-left was the last event received about it
\* has no session: neither a stagger timer set before it left nor an entry
\* of the admission queue brings the departed peer back.
C31_DepartedPeerStaysGone ==
  \A p \in PeerIds : p \in vc.departed => ~vc.peers[p].exists

\* ------------------------------------------------------------- claim C32
\* C32: no ICE failure of a session is left without its restart: once no
\* routine of the session is in flight any more (nothing is left that could
\* still send it), an offer with iceRestart has been emitted for every
\* 'failed' of the ICE connection state.
C32_IceFailureRestarted ==
  \A e \in Ends :
    (ps[e].exists /\ chain[e] = <<>>) => ctr[e].restarts >= ctr[e].iceFails

\* ------------------------------------------------------------- claim C33
\* C33: makingOffer is not left set: whenever no offer routine (of
\* onnegotiationneeded or of _restartIce) is in flight for a session, its
\* makingOffer flag is false.
C33_MakingOfferNotStuck ==
  \A e \in Ends : (ps[e].exists /\ OffersInFlight(e) = {}) => ~ps[e].makingOffer

\* An offer routine was aborted after createOffer because the signalling
\* state had changed, and no routine is in flight any more.
C33_RoutineAborted ==
  \E e \in Ends :
    /\ ps[e].exists /\ OffersInFlight(e) = {}
    /\ ps[e].signalingState = "have-remote-offer"
    /\ ~ps[e].localDescSet
    /\ ctr[e].negFired > 0 /\ ~ctr[e].negSkipped

\* ------------------------------------------------------------- claim C34
\* C34: at most one execution of _processConnectionQueue exists at any time:
\* never are two executions suspended in their stagger sleep.
\* Whenever a timer callback enters _processConnectionQueue past its
\* _isConnecting test, no other execution is suspended.
C34_SinglePump ==
  [][/\ BagCardinality(vc.pumps) <= 1
     /\ (~vc.isConnecting /\ (SlotTimerFires \/ PumpTimerFires))
          => vc.pumps = EmptyBag]_vars

C36_ErrorExcludesFinish ==
  ap.errors > 0 => ap.finishes = 0

\* ------------------------------------------------------------- claim C37
\* C37: once a player is stopped, no step pushes a frame (a frame pushed
\* takes FRAME_BYTES off the buffer), emits 'finish' or spawns a decoder,
\* whichever of late data, close, pump tick, drain tick or unpause it is.
C37_StoppedPlayerInert ==
  [][ap.stopped => /\ ap'.buf >= ap.buf
                   /\ ap'.finishes = ap.finishes
                   /\ ap'.spawns = ap.spawns]_vars

\* A stopped looping player whose decoder closed after stop(), with a whole
\* frame of late data buffered, unpaused, and every drain interval gone.
C37_StoppedAndQuiet ==
  /\ ap.stopped /\ ap.loop /\ ~ap.paused
  /\ ap.buf >= FRAME_BYTES
  /\ ap.procs = <<>> /\ ap.drains = 0
  /\ ap.spawns >= 2

\* ------------------------------------------------------------- claim C38
\* C38: the polling of playVideo ends: trySyncUnpause is not set again once
\* the playback of its call has been stopped or replaced or both its players
\* are unpaused.
C38_SyncPollEnds ==
  \A g \in 1..MaxPlays : Timer("trySync", g) \notin pb.fired

\* ------------------------------------------------------------- claim C39
\* C39: while _isMassJoinInProgress is set, something is pending that resets
\* it: a batch callback or the 10000 ms timer of the last batch, also
\* when the participants list was dispatched without batches.
C39_MassJoinFlagReset ==
  vc.isMassJoinInProgress => (vc.batchTimers # <<>> \/ vc.massTimers > 0)

\* ------------------------------------------------------------- claim C40
\* C40: for every count = peers.size + queue.length, _getTierConfig returns
\* the row small up to 10, medium from 11 to 25, large from 26 to 50 and
\* massive above 50, each with the values of the tier table.
C40_TierByCount ==
  LET count == Len(vc.keys) + vc.anon + Len(vc.connectionQueue)
      row == _getTierConfig(vc)
  IN /\ count <= 10
          => row = [maxPeers |-> 10, concurrent |-> 2, cooldown |-> 1000,
                    staggerBase |-> 300, staggerPerPeer |-> 200]
     /\ (10 < count /\ count <= 25)
          => row = [maxPeers |-> 25, concurrent |-> 2, cooldown |-> 1500,
                    staggerBase |-> 800, staggerPerPeer |-> 400]
     /\ (25 < count /\ count <= 50)
          => row = [maxPeers |-> 50, concurrent |-> 1, cooldown |-> 2000,
                    staggerBase |-> 1500, staggerPerPeer |-> 600]
     /\ count > 50
          => row = [maxPeers |-> 100, concurrent |-> 1, cooldown |-> 3000,
                    staggerBase |-> 2500, staggerPerPeer |-> 800]

\* The count is 51, made of sessions and of a queued peer, and the row is
\* massive.
C40_JustAboveFifty ==
  /\ Len(vc.keys) + vc.anon + Len(vc.connectionQueue) = 51
  /\ vc.keys # <<>> /\ vc.connectionQueue # <<>>
  /\ _getTierConfig(vc).concurrent = 1
  /\ _getTierConfig(vc).maxPeers = 100

====
